---- MODULE Spec2Model ----
(***************************************************************************)
(* Model of the collision pass of the N-body engine                        *)
(* (src/src/shaders/compute/collision.wgsl): the detect dispatch, which    *)
(* traverses the LBVH per body and writes scratch buffers, and the apply   *)
(* dispatch, which publishes the scratch buffers.                          *)
(*                                                                         *)
(* Numbers.  An f32 is modelled as a fixed-point integer with FRAC units   *)
(* per 1.0.  A product of two such values (dot, radius * radius) is kept   *)
(* exactly, at FRAC * FRAC units per 1.0; a quotient, a square root and a  *)
(* rescaled product are truncated toward zero.  A vec2<f32> is a pair      *)
(* <<x, y>>.  A u32 is a natural number below U32.                         *)
(***************************************************************************)
EXTENDS Integers, Sequences, FiniteSets, TLC

VARIABLES
    num_bodies,     \* metadata.num_bodies
    mass_buf,       \* body id -> mass
    pos_buf,        \* body id -> position
    vel_buf,        \* body id -> velocity
    pos_scratch,    \* body id -> position computed by detect
    vel_scratch,    \* body id -> velocity computed by detect
    body_indices,   \* sorted position -> body id
    node_data,      \* node index -> NodeData
    phase,          \* the dispatch in flight: "detect", "apply" or "done"
    pc,             \* invocation -> "ready", "loop" or "done"
    loc,            \* started detect invocation -> its function-scope variables
    writes,         \* <<dispatch, invocation, buffer, element>> stored so far
    reads,          \* <<dispatch, invocation, buffer, element>> loaded from live pos/vel
    input           \* pos_buf and vel_buf as they were when the pass started

\* the ping-pong frame loops (src/unnamed/part_000, src/src/index.ts)
VARIABLES
    program,        \* "shift_right" (part_000), "advect" (index.ts) or "none"
    uSize,          \* [width, height] of the shift-right demo
    bufferA,        \* index -> value, the contents of bufferA of the demo
    bufferB,        \* index -> value, the contents of bufferB of the demo
    ping,           \* the flag frame() toggles
    fpc,            \* position in frame(): "idle", "computed" or "rendered"
    frames,         \* frames submitted so far
    pass,           \* the passes encoded by the current frame
    last_dst        \* the buffers the previous frame's compute pass wrote

collisionVars == <<num_bodies, mass_buf, pos_buf, vel_buf, pos_scratch, vel_scratch,
                   body_indices, node_data, phase, pc, loc, writes, reads, input>>

demoVars == <<program, uSize, bufferA, bufferB, ping, fpc, frames, pass, last_dst>>

\* the host: InteractionController (src/src/interaction.ts), the simulation
\* and the renderer it drives, the frame task and the GPU queue
VARIABLES
    simNumBodies,   \* sim.getNumBodies()
    simPos,         \* sim.getBuffers().pos: the id of the buffer
    simScenario,    \* the scenario the simulation was seeded with
    rendNumBodies,  \* the renderer's body count
    rendPos,        \* the id of the position buffer the renderer is bound to
    allocs,         \* buffers allocated so far (the next buffer id)
    js,             \* the JavaScript task running: "idle" or "frame"
    encoder,        \* the dispatches the frame task has encoded
    queue,          \* the GPU queue: submitted writes and dispatches
    devNumBodies,   \* metadata.num_bodies on the device
    running,        \* the dispatch in flight, NoDispatch when none
    done,           \* the workers of the dispatch in flight that have finished
    executed,       \* the workers that have run: step, dispatch, what they saw
    steps,          \* simulation steps submitted so far
    events,         \* UI events handled so far
    lastEvent,      \* the listener that ran last
    lastValue,      \* the value of the element when it ran
    calls           \* the calls on sim and renderer it made

hostVars == <<simNumBodies, simPos, simScenario, rendNumBodies, rendPos, allocs, js,
              encoder, queue, devNumBodies, running, done, executed, steps, events,
              lastEvent, lastValue, calls>>

\* the LBVH of a step: construction from the sorted Morton codes and the
\* bottom-up aggregation
VARIABLES
    leaf_count,     \* num_bodies of the step
    morton_codes,   \* sorted position -> Morton code, ascending
    topology,       \* internal node -> [left_child, right_child], once built
    parent,         \* node -> parent, once written
    node_status,    \* internal node -> arrival counter
    aggregate,      \* node -> the aggregate written to node_data
    worker,         \* aggregation worker (leaf) -> [at: node, pc]
    arrivals,       \* internal node -> the workers that arrived, in order
    writers         \* internal node -> the workers that have written its aggregate

lbvhVars == <<leaf_count, morton_codes, topology, parent, node_status, aggregate,
              worker, arrivals, writers>>

VARIABLES
    uint_metadata,  \* [width, height] of the fluid grid, 0 by 0 when there is none
    uBuffer,        \* binding u: idx_u -> horizontal velocity, (width + 1) * height values
    vBuffer,        \* binding v: idx_v -> vertical velocity, width * (height + 1) values
    dyeBuffer,      \* binding dye: idx_center -> dye, width * height values
    newUBuffer,     \* binding u_new: what advect_main stores the advected u to
    newVBuffer,     \* binding v_new: what advect_main stores the advected v to
    newDyeBuffer,   \* binding dye_new: what advect_main stores the advected dye to
    sample_at,      \* the position <<x, y>> the samplers are applied to
    taps            \* the sampler calls of the last step: [fn, at, idx]

gridVars == <<uint_metadata, uBuffer, vBuffer, dyeBuffer, newUBuffer, newVBuffer,
              newDyeBuffer, sample_at, taps>>

vars == <<collisionVars, demoVars, hostVars, lbvhVars, gridVars>>

\* the state outside the collision pass, the frame loops, the host, the LBVH,
\* the fluid grid
outsideCollision == <<demoVars, hostVars, lbvhVars, gridVars>>
outsideDemo == <<collisionVars, hostVars, lbvhVars, gridVars>>
outsideHost == <<collisionVars, demoVars, lbvhVars, gridVars>>
outsideLbvh == <<collisionVars, demoVars, hostVars, gridVars>>
outsideGrid == <<collisionVars, demoVars, hostVars, lbvhVars>>

buffers == <<num_bodies, mass_buf, body_indices, node_data>>

----------------------------------------------------------------------------
(* Bounds of the model                                                     *)

\* bodies in a step of the small configurations: 0 .. MaxBodies
MaxBodies == 3
\* invocations a dispatch launches beyond num_bodies (the rest of a workgroup)
ExtraThreads == 1
\* bodies of the deep configurations (comb trees deeper than the stack)
DeepBodies == 257
\* canvas sizes of the frame loops: 1 .. MaxWidth by 1 .. MaxHeight
MaxWidth == 3
MaxHeight == 2
\* frames a frame loop is followed for
MaxFrames == 4
\* characters of the value of numBodiesSelect: 0 .. MaxValueLen
MaxValueLen == 2
\* UI events handled
MaxEvents == 2
\* simulation steps submitted
MaxSteps == 2
\* leaves of the trees built from Morton codes: 2 .. MaxLeaves
MaxLeaves == 4
\* leaves of the trees aggregated: 1 .. MaxAggLeaves
MaxAggLeaves == 4
\* fluid grids: 1 .. MaxGridWidth by 1 .. MaxGridHeight cells
MaxGridWidth == 3
MaxGridHeight == 2

----------------------------------------------------------------------------
(* Numbers                                                                 *)

FRAC == 1000
\* the modulus of u32 arithmetic, narrowed to the integers TLC can hold
U32 == 2 ^ 30

RADIUS == 500
RESTITUTION == 800
stack_size == 256
\* the literal 0.0001 of the distance test, at FRAC * FRAC units per 1.0
DIST_SQ_FLOOR == 100

\* The arithmetic operators are applications of functions of their operands,
\* so that an operand is evaluated once however often the result uses it.

Int2 == Int \X Int

Abs(a) == IF a < 0 THEN -a ELSE a

\* f32 division, truncated toward zero
TDiv(a, b) ==
    LET div[p \in Int2] ==
            IF (p[1] >= 0) = (p[2] > 0) THEN Abs(p[1]) \div Abs(p[2])
            ELSE -(Abs(p[1]) \div Abs(p[2]))
    IN  div[<<a, b>>]

\* a * b and a / b of two f32 values
FMul(a, b) == TDiv(a * b, FRAC)
FQuot(a, b) == TDiv(a * FRAC, b)

\* sqrt of a value at FRAC * FRAC units, as a value at FRAC units: the largest
\* r with r * r <= x, found by bisection of lo .. hi
Sqrt(x) ==
    LET search[p \in Nat \X Nat \X Nat] ==
            IF p[2] - p[1] <= 1 THEN p[1]
            ELSE LET mid == (p[1] + p[2]) \div 2
                 IN  IF mid * mid <= p[3] THEN search[<<mid, p[2], p[3]>>]
                     ELSE search[<<p[1], mid, p[3]>>]
        root[y \in Nat] == search[<<0, IF y < 46340 THEN y + 1 ELSE 46340, y>>]
    IN  root[x]

Zero == <<0, 0>>
VAdd(a, b) ==
    LET add[p \in Int2 \X Int2] == <<p[1][1] + p[2][1], p[1][2] + p[2][2]>>
    IN  add[<<a, b>>]
VSub(a, b) ==
    LET sub[p \in Int2 \X Int2] == <<p[1][1] - p[2][1], p[1][2] - p[2][2]>>
    IN  sub[<<a, b>>]
\* dot(a, b), at FRAC * FRAC units
Dot(a, b) ==
    LET dot[p \in Int2 \X Int2] == p[1][1] * p[2][1] + p[1][2] * p[2][2]
    IN  dot[<<a, b>>]
\* vec / f32 and vec * f32
VQuot(a, s) ==
    LET quot[p \in Int2 \X Int] == <<FQuot(p[1][1], p[2]), FQuot(p[1][2], p[2])>>
    IN  quot[<<a, s>>]
VMul(a, s) ==
    LET mul[p \in Int2 \X Int] == <<FMul(p[1][1], p[2]), FMul(p[1][2], p[2])>>
    IN  mul[<<a, s>>]
\* vec / f32(count)
VDivCount(a, k) ==
    LET quot[p \in Int2 \X Int] == <<TDiv(p[1][1], p[2]), TDiv(p[1][2], p[2])>>
    IN  quot[<<a, k>>]
Min(a, b) == LET min[p \in Int2] == IF p[1] < p[2] THEN p[1] ELSE p[2] IN min[<<a, b>>]
Max(a, b) == LET max[p \in Int2] == IF p[1] > p[2] THEN p[1] ELSE p[2] IN max[<<a, b>>]
Clamp(c, lo, hi) ==
    LET clamp[p \in Int2 \X Int2 \X Int2] ==
            <<Min(Max(p[1][1], p[2][1]), p[3][1]), Min(Max(p[1][2], p[2][2]), p[3][2])>>
    IN  clamp[<<c, lo, hi>>]
Normalize(d) ==
    LET norm[v \in Int2] == VQuot(v, Sqrt(Dot(v, v)))
    IN  norm[d]

----------------------------------------------------------------------------
(* Helper functions of the shader                                          *)

\* n - 1u wraps for n = 0
is_leaf(node_index, n) == node_index >= (n - 1) % U32

\* aabb_intersects_circle comparing the squared distance with the radius
aabb_intersects_circle_unsquared(aabb_min, aabb_max, center, radius) ==
    LET closest == Clamp(center, aabb_min, aabb_max)
        diff == VSub(center, closest)
        dist_sq == Dot(diff, diff)
    IN  dist_sq <= radius

aabb_intersects_circle(aabb_min, aabb_max, center, radius) ==
    LET closest == Clamp(center, aabb_min, aabb_max)
        diff == VSub(center, closest)
        dist_sq == Dot(diff, diff)
    IN  dist_sq <= radius * radius

\* relative velocity of body 1 along the normal pointing from body 2 to body 1
RelVelNormal(pos1, vel1, pos2, vel2) ==
    TDiv(Dot(VSub(vel1, vel2), Normalize(VSub(pos1, pos2))), FRAC)

\* resolve_collision without the test that the bodies are approaching
resolve_collision_unconditional(pos1, vel1, m1, pos2, vel2, m2) ==
    LET n == Normalize(VSub(pos1, pos2))
        v_rel_n == RelVelNormal(pos1, vel1, pos2, vel2)
        j == FQuot(FMul(-(FRAC + RESTITUTION), v_rel_n),
                   FQuot(FRAC, m1) + FQuot(FRAC, m2))
    IN  VMul(n, FQuot(j, m1))

\* resolve_collision dividing the impulse by the body's own inverse mass only
resolve_collision_own_mass(pos1, vel1, m1, pos2, vel2, m2) ==
    LET n == Normalize(VSub(pos1, pos2))
        v_rel_n == RelVelNormal(pos1, vel1, pos2, vel2)
    IN  IF v_rel_n >= 0 THEN Zero
        ELSE LET j == FQuot(FMul(-(FRAC + RESTITUTION), v_rel_n), FQuot(FRAC, m1))
             IN  VMul(n, FQuot(j, m1))

resolve_collision(pos1, vel1, m1, pos2, vel2, m2) ==
    LET n == Normalize(VSub(pos1, pos2))
        v_rel_n == RelVelNormal(pos1, vel1, pos2, vel2)
    IN  IF v_rel_n >= 0 THEN Zero
        ELSE LET j == FQuot(FMul(-(FRAC + RESTITUTION), v_rel_n),
                            FQuot(FRAC, m1) + FQuot(FRAC, m2))
             IN  VMul(n, FQuot(j, m1))

----------------------------------------------------------------------------
(* The traversal of one invocation of collision_detect_main                *)

collision_dist == 2 * RADIUS
collision_dist_sq == collision_dist * collision_dist

\* Colliding accepting a pair exactly at the epsilon floor
CollidingAtFloor(dist_sq) == dist_sq < collision_dist_sq /\ dist_sq >= DIST_SQ_FLOOR

\* the distance test of a leaf pair
Colliding(dist_sq) == dist_sq < collision_dist_sq /\ dist_sq > DIST_SQ_FLOOR

\* PushAllowed letting the second push land one past the last element
PushAllowedOffByOne(stack_ptr) == stack_ptr + 2 <= stack_size

\* the guard of the two pushes, on the stack pointer after the pop
PushAllowed(stack_ptr) == stack_ptr + 2 < stack_size

\* the position correction one colliding pair adds
PosCorrection(pos1, m1, pos2, m2) ==
    LET diff == VSub(pos1, pos2)
        dist == Sqrt(Dot(diff, diff))
        overlap == collision_dist - dist
    IN  IF overlap > 0
        THEN LET correction_dir == VQuot(diff, dist)
                 total_inv_mass == FQuot(FRAC, m1) + FQuot(FRAC, m2)
             IN  VQuot(VMul(VMul(correction_dir, overlap), FQuot(FRAC, m1)),
                       total_inv_mass)
        ELSE Zero

\* EnterLocals taking the invocation id for the body id
EnterLocalsByThread(t, bi, pos, vel, mass) ==
    [body_idx |-> t, pos1 |-> pos[t], vel1 |-> vel[t],
     m1 |-> mass[t], vel_change |-> Zero, pos_correction |-> Zero,
     collision_count |-> 0, stack |-> (0 :> 0), stack_ptr |-> 0]

\* the function-scope variables once the loop is reached
EnterLocals(t, bi, pos, vel, mass) ==
    LET body_idx == bi[t]
    IN  [body_idx |-> body_idx, pos1 |-> pos[body_idx], vel1 |-> vel[body_idx],
         m1 |-> mass[body_idx], vel_change |-> Zero, pos_correction |-> Zero,
         collision_count |-> 0, stack |-> (0 :> 0), stack_ptr |-> 0]

\* body of the leaf the popped node is, or -1 for an internal node
LeafBody(node_idx, n, bi) ==
    IF is_leaf(node_idx, n) THEN bi[(node_idx - (n - 1)) % U32] ELSE -1

\* VisitLocals leaving a node on the stack when its children do not fit
VisitLocalsRetry(l, n, bi, nd, pos, vel, mass) ==
    LET node_idx == l.stack[l.stack_ptr]
        node == nd[node_idx]
        sp == l.stack_ptr - 1
    IN  IF is_leaf(node_idx, n)
        THEN LET other_body_idx == LeafBody(node_idx, n, bi)
                 pos2 == pos[other_body_idx]
                 diff == VSub(l.pos1, pos2)
             IN  IF other_body_idx # l.body_idx /\ Colliding(Dot(diff, diff))
                 THEN [l EXCEPT
                         !.stack_ptr = sp,
                         !.vel_change = VAdd(@, resolve_collision(
                             l.pos1, l.vel1, l.m1,
                             pos2, vel[other_body_idx], mass[other_body_idx])),
                         !.pos_correction = VAdd(@, PosCorrection(
                             l.pos1, l.m1, pos2, mass[other_body_idx])),
                         !.collision_count = @ + 1]
                 ELSE [l EXCEPT !.stack_ptr = sp]
        ELSE LET expanded_min == VSub(node.aabb_min, <<RADIUS, RADIUS>>)
                 expanded_max == VAdd(node.aabb_max, <<RADIUS, RADIUS>>)
             IN  IF aabb_intersects_circle(expanded_min, expanded_max, l.pos1, RADIUS)
                 THEN IF PushAllowed(sp)
                      THEN [l EXCEPT
                              !.stack_ptr = sp + 2,
                              !.stack = (sp + 1 :> node.left_child)
                                        @@ (sp + 2 :> node.right_child) @@ @]
                      ELSE l
                 ELSE [l EXCEPT !.stack_ptr = sp]

\* one iteration of the while loop
VisitLocals(l, n, bi, nd, pos, vel, mass) ==
    LET node_idx == l.stack[l.stack_ptr]
        node == nd[node_idx]
        sp == l.stack_ptr - 1
    IN  IF is_leaf(node_idx, n)
        THEN LET other_body_idx == LeafBody(node_idx, n, bi)
                 pos2 == pos[other_body_idx]
                 diff == VSub(l.pos1, pos2)
             IN  IF other_body_idx # l.body_idx /\ Colliding(Dot(diff, diff))
                 THEN [l EXCEPT
                         !.stack_ptr = sp,
                         !.vel_change = VAdd(@, resolve_collision(
                             l.pos1, l.vel1, l.m1,
                             pos2, vel[other_body_idx], mass[other_body_idx])),
                         !.pos_correction = VAdd(@, PosCorrection(
                             l.pos1, l.m1, pos2, mass[other_body_idx])),
                         !.collision_count = @ + 1]
                 ELSE [l EXCEPT !.stack_ptr = sp]
        ELSE LET expanded_min == VSub(node.aabb_min, <<RADIUS, RADIUS>>)
                 expanded_max == VAdd(node.aabb_max, <<RADIUS, RADIUS>>)
             IN  IF /\ aabb_intersects_circle(expanded_min, expanded_max, l.pos1, RADIUS)
                    /\ PushAllowed(sp)
                 THEN [l EXCEPT
                         !.stack_ptr = sp + 2,
                         !.stack = (sp + 1 :> node.left_child)
                                   @@ (sp + 2 :> node.right_child) @@ @]
                 ELSE [l EXCEPT !.stack_ptr = sp]

\* the live pos_buf / vel_buf elements one iteration loads
VisitReads(l, n, bi, pos) ==
    LET other_body_idx == LeafBody(l.stack[l.stack_ptr], n, bi)
    IN  IF other_body_idx = -1 \/ other_body_idx = l.body_idx THEN {}
        ELSE IF Colliding(Dot(VSub(l.pos1, pos[other_body_idx]),
                              VSub(l.pos1, pos[other_body_idx])))
             THEN {<<"pos_buf", other_body_idx>>, <<"vel_buf", other_body_idx>>}
             ELSE {<<"pos_buf", other_body_idx>>}

\* Averaged leaving the sum undivided
AveragedAsSum(sum, collision_count) == sum

\* the averaging of an accumulated sum after the loop
Averaged(sum, collision_count) ==
    IF collision_count > 0 THEN VDivCount(sum, collision_count) ELSE sum

FinishVel(l) == VAdd(l.vel1, Averaged(l.vel_change, l.collision_count))
FinishPos(l) == VAdd(l.pos1, Averaged(l.pos_correction, l.collision_count))

----------------------------------------------------------------------------
(* Inputs of a pass: bodies, the index permutation and the LBVH            *)

\* body sets; a pass over n bodies takes the first n bodies of one of them
Scenarios ==
    { \* head-on pair, a third body approaching from above, one far away
      [pos  |-> <<<<0, 0>>, <<600, 0>>, <<0, 800>>, <<3000, 3000>>>>,
       vel  |-> <<<<100, 0>>, <<-100, 0>>, <<0, -50>>, <<0, 0>>>>,
       mass |-> <<1000, 1000, 2000, 1000>>],
      \* body 0 approached by body 1 and overlapping body 2 while moving apart
      [pos  |-> <<<<0, 0>>, <<600, 0>>, <<-600, 0>>, <<0, 2500>>>>,
       vel  |-> <<<<100, 0>>, <<-100, 0>>, <<-200, 0>>, <<0, 0>>>>,
       mass |-> <<1000, 1000, 1000, 1000>>],
      \* coincident bodies and a body exactly at the epsilon floor
      [pos  |-> <<<<0, 0>>, <<10, 0>>, <<0, 0>>, <<11, 0>>>>,
       vel  |-> <<<<50, 0>>, <<-50, 0>>, <<-50, 0>>, <<-50, 0>>>>,
       mass |-> <<1000, 1000, 1000, 2000>>],
      \* bodies just above the epsilon floor
      [pos  |-> <<<<0, 0>>, <<11, 0>>, <<0, 11>>, <<-11, 0>>>>,
       vel  |-> <<<<0, 0>>, <<-70, 0>>, <<20, -70>>, <<0, 0>>>>,
       mass |-> <<1000, 2000, 1000, 1000>>],
      \* bodies far apart
      [pos  |-> <<<<0, 0>>, <<3000, 0>>, <<0, 3000>>, <<3000, 3000>>>>,
       vel  |-> <<<<100, 0>>, <<-100, 0>>, <<0, -100>>, <<-100, -100>>>>,
       mass |-> <<1000, 1000, 1000, 1000>>],
      \* oblique contacts between unequal masses
      [pos  |-> <<<<0, 0>>, <<300, 400>>, <<-300, 400>>, <<0, -700>>>>,
       vel  |-> <<<<30, 40>>, <<-30, -40>>, <<0, 0>>, <<0, 100>>>>,
       mass |-> <<2000, 1000, 1000, 4000>>] }

\* body b of a body set (the sets repeat beyond their length)
BodyOf(seq, b) == seq[(b % Len(seq)) + 1]

Perms(n) ==
    { f \in [0 .. n - 1 -> 0 .. n - 1] : \A a, b \in 0 .. n - 1 : f[a] = f[b] => a = b }

\* The tree shapes over the sorted positions lo .. hi below internal node idx:
\* the children cover lo .. g and g + 1 .. hi; an internal child is numbered g
\* (left) or g + 1 (right), the leaf of sorted position i is node n - 1 + i.
RECURSIVE Topologies(_, _, _, _)
Topologies(n, idx, lo, hi) ==
    UNION {
        LET ls == IF lo = g THEN {<<>>} ELSE Topologies(n, g, lo, g)
            rs == IF g + 1 = hi THEN {<<>>} ELSE Topologies(n, g + 1, g + 1, hi)
            node == [left_child  |-> IF lo = g THEN n - 1 + g ELSE g,
                     right_child |-> IF g + 1 = hi THEN n - 1 + hi ELSE g + 1,
                     first |-> lo, last |-> hi]
        IN  { (idx :> node) @@ l @@ r : l \in ls, r \in rs }
        : g \in lo .. hi - 1 }

TreeShapes(n) == IF n < 2 THEN {<<>>} ELSE Topologies(n, 0, 0, n - 1)

\* the comb whose every left child is a leaf: node i covers i .. n - 1
RightComb(n) ==
    [i \in 0 .. n - 2 |->
        [left_child  |-> n - 1 + i,
         right_child |-> IF i + 1 = n - 1 THEN 2 * n - 2 ELSE i + 1,
         first |-> i, last |-> n - 1]]

\* the comb whose every right child is a leaf: node 0 covers all, node i covers 0 .. i
LeftComb(n) ==
    [i \in 0 .. n - 2 |->
        LET hi == IF i = 0 THEN n - 1 ELSE i
        IN  [left_child  |-> IF hi - 1 = 0 THEN n - 1 ELSE hi - 1,
             right_child |-> n - 1 + hi,
             first |-> 0, last |-> hi]]

RECURSIVE BoxMin(_, _, _, _)
BoxMin(pos, bi, lo, hi) ==
    IF lo = hi THEN pos[bi[lo]]
    ELSE LET mid == (lo + hi) \div 2
             p == BoxMin(pos, bi, lo, mid)
             q == BoxMin(pos, bi, mid + 1, hi)
         IN  <<Min(p[1], q[1]), Min(p[2], q[2])>>

RECURSIVE BoxMax(_, _, _, _)
BoxMax(pos, bi, lo, hi) ==
    IF lo = hi THEN pos[bi[lo]]
    ELSE LET mid == (lo + hi) \div 2
             p == BoxMax(pos, bi, lo, mid)
             q == BoxMax(pos, bi, mid + 1, hi)
         IN  <<Max(p[1], q[1]), Max(p[2], q[2])>>

\* node_data of a tree shape: every box is the bounding box of the node's leaves
NodeDataOf(n, shape, pos, bi) ==
    [x \in 0 .. 2 * n - 2 |->
        IF x >= n - 1
        THEN [aabb_min |-> pos[bi[x - (n - 1)]], aabb_max |-> pos[bi[x - (n - 1)]],
              left_child |-> 0, right_child |-> 0]
        ELSE [aabb_min |-> BoxMin(pos, bi, shape[x].first, shape[x].last),
              aabb_max |-> BoxMax(pos, bi, shape[x].first, shape[x].last),
              left_child |-> shape[x].left_child,
              right_child |-> shape[x].right_child]]

\* no collision pass is in flight
CollisionIdle ==
    /\ num_bodies = 0
    /\ mass_buf = <<>>
    /\ pos_buf = <<>>
    /\ vel_buf = <<>>
    /\ pos_scratch = <<>>
    /\ vel_scratch = <<>>
    /\ body_indices = <<>>
    /\ node_data = <<>>
    /\ phase = "idle"
    /\ pc = <<>>
    /\ loc = <<>>
    /\ writes = {}
    /\ reads = {}
    /\ input = [pos |-> <<>>, vel |-> <<>>]

\* no frame loop is running
DemoIdle ==
    /\ program = "none"
    /\ uSize = [width |-> 0, height |-> 0]
    /\ bufferA = <<>>
    /\ bufferB = <<>>
    /\ ping = TRUE
    /\ fpc = "idle"
    /\ frames = 0
    /\ pass = <<>>
    /\ last_dst = {}

NoDispatch == [op |-> "none"]

\* no controller, simulation or renderer exists
HostIdle ==
    /\ simNumBodies = 0
    /\ simPos = 0
    /\ simScenario = "none"
    /\ rendNumBodies = 0
    /\ rendPos = 0
    /\ allocs = 0
    /\ js = "idle"
    /\ encoder = <<>>
    /\ queue = <<>>
    /\ devNumBodies = 0
    /\ running = NoDispatch
    /\ done = {}
    /\ executed = {}
    /\ steps = 0
    /\ events = 0
    /\ lastEvent = "none"
    /\ lastValue = <<>>
    /\ calls = <<>>

\* no LBVH is being built
LbvhIdle ==
    /\ leaf_count = 0
    /\ morton_codes = <<>>
    /\ topology = <<>>
    /\ parent = <<>>
    /\ node_status = <<>>
    /\ aggregate = <<>>
    /\ worker = <<>>
    /\ arrivals = <<>>
    /\ writers = <<>>

\* no fluid grid is allocated
GridIdle ==
    /\ uint_metadata = [width |-> 0, height |-> 0]
    /\ uBuffer = <<>>
    /\ vBuffer = <<>>
    /\ dyeBuffer = <<>>
    /\ newUBuffer = <<>>
    /\ newVBuffer = <<>>
    /\ newDyeBuffer = <<>>
    /\ sample_at = <<0, 0>>
    /\ taps = <<>>

\* the state when the detect dispatch is launched
Setup(n, pos, vel, mass, bi, shape) ==
    /\ num_bodies = n
    /\ pos_buf = pos
    /\ vel_buf = vel
    /\ mass_buf = mass
    /\ pos_scratch = [b \in 0 .. n - 1 |-> Zero]
    /\ vel_scratch = [b \in 0 .. n - 1 |-> Zero]
    /\ body_indices = bi
    /\ node_data = NodeDataOf(n, shape, pos, bi)
    /\ phase = "detect"
    /\ pc = [t \in 0 .. n + ExtraThreads - 1 |-> "ready"]
    /\ loc = <<>>
    /\ writes = {}
    /\ reads = {}
    /\ input = [pos |-> pos, vel |-> vel]
    /\ DemoIdle
    /\ HostIdle
    /\ LbvhIdle
    /\ GridIdle

Init ==
    \E n \in 0 .. MaxBodies, s \in Scenarios :
        \E bi \in Perms(n), shape \in TreeShapes(n) :
            Setup(n, [b \in 0 .. n - 1 |-> BodyOf(s.pos, b)],
                     [b \in 0 .. n - 1 |-> BodyOf(s.vel, b)],
                     [b \in 0 .. n - 1 |-> BodyOf(s.mass, b)], bi, shape)

\* near-duplicate positions on a line, body 0 moving toward all the others,
\* under a comb one body short of overflowing the stack or deeper
InitDeep ==
    \E n \in {DeepBodies - 1, DeepBodies} :
        \E shape \in {RightComb(n), LeftComb(n)} :
            Setup(n, [b \in 0 .. n - 1 |-> <<3 * b, 0>>],
                     [b \in 0 .. n - 1 |-> IF b = 0 THEN <<100, 0>> ELSE Zero],
                     [b \in 0 .. n - 1 |-> 1000],
                     [b \in 0 .. n - 1 |-> b], shape)

\* speeds, centre distances and masses of the head-on pairs, chosen so that
\* the impulse and its quotients are whole numbers of the fixed-point unit
HeadOnSpeeds == {50, 100, 250, 1000}
HeadOnGaps == {10, 15, 600, 995, 1000, 3000}
HeadOnMasses == {500, 1000, 4000}

\* two equal-mass bodies on a line parallel to the x-axis with velocities
\* +v and -v along it, moving toward each other (dir = 1) or apart (dir = -1)
InitHeadOn ==
    \E v \in HeadOnSpeeds, gap \in HeadOnGaps, m \in HeadOnMasses, dir \in {1, -1} :
        \E x \in {-300, 0}, y \in {0, 700}, bi \in Perms(2), left \in 0 .. 1,
           shape \in TreeShapes(2) :
            Setup(2, [b \in 0 .. 1 |-> IF b = left THEN <<x, y>> ELSE <<x + gap, y>>],
                     [b \in 0 .. 1 |-> IF b = left THEN <<dir * v, 0>> ELSE <<-dir * v, 0>>],
                     [b \in 0 .. 1 |-> m], bi, shape)

\* four-body sets in which a traversal both prunes a subtree and has contacts
ClusterScenarios ==
    { \* two overlapping pairs far from each other
      [pos  |-> <<<<0, 0>>, <<600, 0>>, <<5000, 0>>, <<5600, 300>>>>,
       vel  |-> <<<<100, 0>>, <<-100, 0>>, <<50, 0>>, <<-50, 0>>>>,
       mass |-> <<1000, 1000, 2000, 1000>>],
      \* three bodies in a row, the outer ones just within and exactly at
      \* collision distance of the middle one, and a body far away
      [pos  |-> <<<<0, 0>>, <<999, 0>>, <<-1000, 0>>, <<0, 4000>>>>,
       vel  |-> <<<<0, 0>>, <<-100, 0>>, <<100, 0>>, <<0, -100>>>>,
       mass |-> <<1000, 1000, 1000, 1000>>],
      \* a body diagonally just within collision distance of a pair's box
      [pos  |-> <<<<0, 0>>, <<100, 0>>, <<800, 590>>, <<-3000, 0>>>>,
       vel  |-> <<<<0, 0>>, <<0, 0>>, <<-100, -100>>, <<0, 0>>>>,
       mass |-> <<1000, 1000, 1000, 1000>>] }

InitClusters ==
    \E s \in ClusterScenarios :
        \E bi \in Perms(4), shape \in TreeShapes(4) :
            Setup(4, [b \in 0 .. 3 |-> BodyOf(s.pos, b)],
                     [b \in 0 .. 3 |-> BodyOf(s.vel, b)],
                     [b \in 0 .. 3 |-> BodyOf(s.mass, b)], bi, shape)

----------------------------------------------------------------------------
(* The loop of collision_detect_main run to its exit                       *)

RECURSIVE RunLoop(_, _, _, _, _, _, _)
RunLoop(l, n, bi, nd, pos, vel, mass) ==
    IF l.stack_ptr < 0 THEN l
    ELSE RunLoop(VisitLocals(l, n, bi, nd, pos, vel, mass), n, bi, nd, pos, vel, mass)

RECURSIVE LoopReads(_, _, _, _, _, _, _)
LoopReads(l, n, bi, nd, pos, vel, mass) ==
    IF l.stack_ptr < 0 THEN {}
    ELSE VisitReads(l, n, bi, pos)
         \cup LoopReads(VisitLocals(l, n, bi, nd, pos, vel, mass), n, bi, nd, pos, vel, mass)

----------------------------------------------------------------------------
(* The dispatches.  The loop of collision_detect_main loads only buffers   *)
(* that no invocation of the detect dispatch stores to; Spec takes the     *)
(* invocation up to the end of the loop in one step (DetectTraverse) and   *)
(* its stores in a second (DetectFinish).  SpecTrace follows one           *)
(* invocation through the loop an iteration at a time.                     *)

\* collision_detect_main up to the loop
DetectEnter(t) ==
    /\ phase = "detect"
    /\ pc[t] = "ready"
    /\ IF t >= num_bodies
       THEN /\ pc' = [pc EXCEPT ![t] = "done"]
            /\ UNCHANGED <<loc, reads>>
       ELSE /\ loc' = (t :> EnterLocals(t, body_indices, pos_buf, vel_buf, mass_buf)) @@ loc
            /\ pc' = [pc EXCEPT ![t] = "loop"]
            /\ reads' = reads \cup {<<"detect", t, "pos_buf", body_indices[t]>>,
                                    <<"detect", t, "vel_buf", body_indices[t]>>}
    /\ UNCHANGED <<buffers, pos_buf, vel_buf, pos_scratch, vel_scratch, phase,
                   writes, input>>
    /\ UNCHANGED outsideCollision

\* one iteration of the loop of collision_detect_main
DetectVisit(t) ==
    /\ phase = "detect"
    /\ pc[t] = "loop"
    /\ loc[t].stack_ptr >= 0
    /\ loc' = [loc EXCEPT ![t] = VisitLocals(@, num_bodies, body_indices, node_data,
                                             pos_buf, vel_buf, mass_buf)]
    /\ reads' = reads \cup { <<"detect", t, r[1], r[2]>> :
                                r \in VisitReads(loc[t], num_bodies, body_indices, pos_buf) }
    /\ UNCHANGED <<buffers, pos_buf, vel_buf, pos_scratch, vel_scratch, phase, pc,
                   writes, input>>
    /\ UNCHANGED outsideCollision

\* DetectTraverse returning early only for thread_idx > num_bodies: invocation
\* num_bodies reaches the loop with the zeros its out-of-bounds loads yield
DetectTraverseOffByOne(t) ==
    /\ phase = "detect"
    /\ pc[t] = "ready"
    /\ IF t > num_bodies
       THEN /\ pc' = [pc EXCEPT ![t] = "done"]
            /\ UNCHANGED <<loc, reads>>
       ELSE IF t = num_bodies
       THEN /\ loc' = (t :> [body_idx |-> 0, pos1 |-> Zero, vel1 |-> Zero, m1 |-> 0,
                             vel_change |-> Zero, pos_correction |-> Zero,
                             collision_count |-> 0, stack |-> (0 :> 0),
                             stack_ptr |-> 0]) @@ loc
            /\ pc' = [pc EXCEPT ![t] = "loop"]
            /\ reads' = reads \cup {<<"detect", t, "pos_buf", 0>>,
                                    <<"detect", t, "vel_buf", 0>>}
       ELSE LET l == EnterLocals(t, body_indices, pos_buf, vel_buf, mass_buf)
            IN  /\ loc' = (t :> RunLoop(l, num_bodies, body_indices, node_data,
                                        pos_buf, vel_buf, mass_buf)) @@ loc
                /\ pc' = [pc EXCEPT ![t] = "loop"]
                /\ reads' = reads
                       \cup {<<"detect", t, "pos_buf", body_indices[t]>>,
                             <<"detect", t, "vel_buf", body_indices[t]>>}
                       \cup { <<"detect", t, r[1], r[2]>> :
                                r \in LoopReads(l, num_bodies, body_indices, node_data,
                                                pos_buf, vel_buf, mass_buf) }
    /\ UNCHANGED <<buffers, pos_buf, vel_buf, pos_scratch, vel_scratch, phase,
                   writes, input>>
    /\ UNCHANGED outsideCollision

\* collision_detect_main up to the end of the loop
DetectTraverse(t) ==
    /\ phase = "detect"
    /\ pc[t] = "ready"
    /\ IF t >= num_bodies
       THEN /\ pc' = [pc EXCEPT ![t] = "done"]
            /\ UNCHANGED <<loc, reads>>
       ELSE LET l == EnterLocals(t, body_indices, pos_buf, vel_buf, mass_buf)
            IN  /\ loc' = (t :> RunLoop(l, num_bodies, body_indices, node_data,
                                        pos_buf, vel_buf, mass_buf)) @@ loc
                /\ pc' = [pc EXCEPT ![t] = "loop"]
                /\ reads' = reads
                       \cup {<<"detect", t, "pos_buf", body_indices[t]>>,
                             <<"detect", t, "vel_buf", body_indices[t]>>}
                       \cup { <<"detect", t, r[1], r[2]>> :
                                r \in LoopReads(l, num_bodies, body_indices, node_data,
                                                pos_buf, vel_buf, mass_buf) }
    /\ UNCHANGED <<buffers, pos_buf, vel_buf, pos_scratch, vel_scratch, phase,
                   writes, input>>
    /\ UNCHANGED outsideCollision

\* DetectFinish resolving in place: the results are stored to the live buffers too
DetectFinishInPlace(t) ==
    /\ phase = "detect"
    /\ pc[t] = "loop"
    /\ loc[t].stack_ptr < 0
    /\ vel_scratch' = [vel_scratch EXCEPT ![loc[t].body_idx] = FinishVel(loc[t])]
    /\ pos_scratch' = [pos_scratch EXCEPT ![loc[t].body_idx] = FinishPos(loc[t])]
    /\ vel_buf' = [vel_buf EXCEPT ![loc[t].body_idx] = FinishVel(loc[t])]
    /\ pos_buf' = [pos_buf EXCEPT ![loc[t].body_idx] = FinishPos(loc[t])]
    /\ writes' = writes \cup {<<"detect", t, "vel_buf", loc[t].body_idx>>,
                              <<"detect", t, "pos_buf", loc[t].body_idx>>}
    /\ pc' = [pc EXCEPT ![t] = "done"]
    /\ UNCHANGED <<buffers, phase, loc, reads, input>>
    /\ UNCHANGED outsideCollision

\* collision_detect_main after the loop
DetectFinish(t) ==
    /\ phase = "detect"
    /\ pc[t] = "loop"
    /\ loc[t].stack_ptr < 0
    /\ vel_scratch' = [vel_scratch EXCEPT ![loc[t].body_idx] = FinishVel(loc[t])]
    /\ pos_scratch' = [pos_scratch EXCEPT ![loc[t].body_idx] = FinishPos(loc[t])]
    /\ writes' = writes \cup {<<"detect", t, "vel_scratch", loc[t].body_idx>>,
                              <<"detect", t, "pos_scratch", loc[t].body_idx>>}
    /\ pc' = [pc EXCEPT ![t] = "done"]
    /\ UNCHANGED <<buffers, pos_buf, vel_buf, phase, loc, reads, input>>
    /\ UNCHANGED outsideCollision

\* the barrier between the two dispatches
DetectRetire ==
    /\ phase = "detect"
    /\ \A t \in DOMAIN pc : pc[t] = "done"
    /\ phase' = "apply"
    /\ pc' = [t \in DOMAIN pc |-> "ready"]
    /\ loc' = <<>>
    /\ UNCHANGED <<buffers, pos_buf, vel_buf, pos_scratch, vel_scratch, writes,
                   reads, input>>
    /\ UNCHANGED outsideCollision

\* collision_apply_main taking the velocity from the scratch element of the invocation id
collision_apply_main_vel_by_thread(t) ==
    /\ phase = "apply"
    /\ pc[t] = "ready"
    /\ IF t >= num_bodies
       THEN UNCHANGED <<pos_buf, vel_buf, writes>>
       ELSE LET body_idx == body_indices[t]
            IN  /\ pos_buf' = [pos_buf EXCEPT ![body_idx] = pos_scratch[body_idx]]
                /\ vel_buf' = [vel_buf EXCEPT ![body_idx] = vel_scratch[t]]
                /\ writes' = writes \cup {<<"apply", t, "pos_buf", body_idx>>,
                                          <<"apply", t, "vel_buf", body_idx>>}
    /\ pc' = [pc EXCEPT ![t] = "done"]
    /\ UNCHANGED <<buffers, pos_scratch, vel_scratch, phase, loc, reads, input>>
    /\ UNCHANGED outsideCollision

collision_apply_main(t) ==
    /\ phase = "apply"
    /\ pc[t] = "ready"
    /\ IF t >= num_bodies
       THEN UNCHANGED <<pos_buf, vel_buf, writes>>
       ELSE LET body_idx == body_indices[t]
            IN  /\ pos_buf' = [pos_buf EXCEPT ![body_idx] = pos_scratch[body_idx]]
                /\ vel_buf' = [vel_buf EXCEPT ![body_idx] = vel_scratch[body_idx]]
                /\ writes' = writes \cup {<<"apply", t, "pos_buf", body_idx>>,
                                          <<"apply", t, "vel_buf", body_idx>>}
    /\ pc' = [pc EXCEPT ![t] = "done"]
    /\ UNCHANGED <<buffers, pos_scratch, vel_scratch, phase, loc, reads, input>>
    /\ UNCHANGED outsideCollision

\* the apply dispatch retires: the pass is over
ApplyRetire ==
    /\ phase = "apply"
    /\ \A t \in DOMAIN pc : pc[t] = "done"
    /\ phase' = "done"
    /\ UNCHANGED <<buffers, pos_buf, vel_buf, pos_scratch, vel_scratch, pc, loc,
                   writes, reads, input>>
    /\ UNCHANGED outsideCollision

Next ==
    \/ \E t \in DOMAIN pc : DetectTraverse(t)
    \/ \E t \in DOMAIN pc : DetectFinish(t)
    \/ DetectRetire
    \/ \E t \in DOMAIN pc : collision_apply_main(t)
    \/ ApplyRetire

Spec == Init /\ [][Next]_vars

\* the invocation followed through the loop
TraceThreads == {0}

InitTrace == Init \/ InitDeep

NextTrace ==
    \/ \E t \in TraceThreads : DetectEnter(t)
    \/ \E t \in TraceThreads : DetectVisit(t)
    \/ \E t \in TraceThreads : DetectFinish(t)

SpecTrace == InitTrace /\ [][NextTrace]_vars

\* an invocation that can take a step eventually takes it
FairSpecTrace == SpecTrace /\ WF_vars(NextTrace)

\* one invocation followed through the four-body sets
SpecClusters == InitClusters /\ [][NextTrace]_vars

\* the pass over the head-on pairs
SpecHeadOn == InitHeadOn /\ [][Next]_vars

----------------------------------------------------------------------------
(* The ping-pong frame loops: the shift-right demo (src/unnamed/part_000)  *)
(* and the advection loop (src/src/index.ts).  A frame encodes a compute   *)
(* pass and a render pass, submits them and toggles ping.                  *)

workgroupX == 16
workgroupY == 16

\* Math.ceil(a / b)
CeilDiv(a, b) == (a + b - 1) \div b

\* the seed: one value per pixel, the leftmost column 1.0 and the rest 0.0
seed(width, height) ==
    [i \in 0 .. width * height - 1 |-> IF i % width = 0 THEN FRAC ELSE 0]

\* main of the shift-right compute shader for invocation (x, y): the store
\* <<idx, val>> to dstBuf it makes, or <<>> when it returns without storing
main(x, y, srcBuf, size) ==
    IF x >= size.width \/ y >= size.height THEN <<>>
    ELSE LET idx == y * size.width + x
         IN  IF x = 0
             THEN <<idx, srcBuf[y * size.width + (size.width - 1)]>>
             ELSE <<idx, srcBuf[y * size.width + (x - 1)]>>

\* dstBuf after pass.dispatchWorkgroups(dispatchX, dispatchY)
dispatchWorkgroups(srcBuf, dstBuf, size) ==
    LET dispatchX == CeilDiv(size.width, workgroupX)
        dispatchY == CeilDiv(size.height, workgroupY)
        stores == { main(x, y, srcBuf, size) :
                      x \in 0 .. dispatchX * workgroupX - 1,
                      y \in 0 .. dispatchY * workgroupY - 1 } \ {<<>>}
    IN  [i \in DOMAIN dstBuf |->
            IF \E st \in stores : st[1] = i
            THEN (CHOOSE st \in stores : st[1] = i)[2]
            ELSE dstBuf[i]]

\* the bind groups: binding -> buffer
computeBindGroupAB(prog) ==
    IF prog = "shift_right"
    THEN (0 :> "bufferA" @@ 1 :> "bufferB" @@ 2 :> "sizeBuffer")
    ELSE (0 :> "floatMetadataBuffer" @@ 1 :> "uintMetadataBuffer"
          @@ 2 :> "uBuffer" @@ 3 :> "vBuffer" @@ 4 :> "newUBuffer" @@ 5 :> "newVBuffer"
          @@ 10 :> "dyeBuffer" @@ 11 :> "newDyeBuffer")

computeBindGroupBA(prog) ==
    IF prog = "shift_right"
    THEN (0 :> "bufferB" @@ 1 :> "bufferA" @@ 2 :> "sizeBuffer")
    ELSE (0 :> "floatMetadataBuffer" @@ 1 :> "uintMetadataBuffer"
          @@ 2 :> "newUBuffer" @@ 3 :> "newVBuffer" @@ 4 :> "uBuffer" @@ 5 :> "vBuffer"
          @@ 10 :> "newDyeBuffer" @@ 11 :> "dyeBuffer")

graphicsBindGroupA(prog) ==
    IF prog = "shift_right" THEN (0 :> "bufferA" @@ 1 :> "sizeBuffer")
    ELSE (0 :> "dyeBuffer" @@ 1 :> "uintMetadataBuffer")

graphicsBindGroupB(prog) ==
    IF prog = "shift_right" THEN (0 :> "bufferB" @@ 1 :> "sizeBuffer")
    ELSE (0 :> "newDyeBuffer" @@ 1 :> "uintMetadataBuffer")

\* the storage bindings the compute entry point loads from and stores to
LoadedBindings(prog) == IF prog = "shift_right" THEN {0} ELSE {2, 3, 10}
StoredBindings(prog) == IF prog = "shift_right" THEN {1} ELSE {4, 5, 11}

\* ComputeGroup binding A -> B in every frame
ComputeGroupNoSwap(prog, p) == computeBindGroupAB(prog)

\* the bind groups frame() sets for the value p of ping
ComputeGroup(prog, p) == IF p THEN computeBindGroupAB(prog) ELSE computeBindGroupBA(prog)
GraphicsGroup(prog, p) == IF p THEN graphicsBindGroupB(prog) ELSE graphicsBindGroupA(prog)

InitDemo ==
    /\ CollisionIdle
    /\ HostIdle
    /\ LbvhIdle
    /\ GridIdle
    /\ \E prog \in {"shift_right", "advect"}, w \in 1 .. MaxWidth, h \in 1 .. MaxHeight :
          /\ program = prog
          /\ uSize = [width |-> w, height |-> h]
          /\ bufferA = IF prog = "shift_right" THEN seed(w, h) ELSE <<>>
          /\ bufferB = IF prog = "shift_right" THEN [i \in 0 .. w * h - 1 |-> 0] ELSE <<>>
    /\ ping = TRUE
    /\ fpc = "idle"
    /\ frames = 0
    /\ pass = [src |-> {}, dst |-> {}, shown |-> "none"]
    /\ last_dst = {}

\* frame(): the compute pass
FrameCompute ==
    /\ fpc = "idle"
    /\ frames < MaxFrames
    /\ LET group == ComputeGroup(program, ping)
       IN  /\ pass' = [src |-> { group[b] : b \in LoadedBindings(program) },
                       dst |-> { group[b] : b \in StoredBindings(program) },
                       shown |-> "none"]
           /\ IF program # "shift_right" THEN UNCHANGED <<bufferA, bufferB>>
              ELSE IF group[1] = "bufferB"
                   THEN /\ bufferB' = dispatchWorkgroups(
                                          IF group[0] = "bufferA" THEN bufferA ELSE bufferB,
                                          bufferB, uSize)
                        /\ UNCHANGED bufferA
                   ELSE /\ bufferA' = dispatchWorkgroups(
                                          IF group[0] = "bufferA" THEN bufferA ELSE bufferB,
                                          bufferA, uSize)
                        /\ UNCHANGED bufferB
    /\ fpc' = "computed"
    /\ UNCHANGED <<program, uSize, ping, frames, last_dst, outsideDemo>>

\* frame(): the render pass
FrameRender ==
    /\ fpc = "computed"
    /\ pass' = [pass EXCEPT !.shown = GraphicsGroup(program, ping)[0]]
    /\ fpc' = "rendered"
    /\ UNCHANGED <<program, uSize, bufferA, bufferB, ping, frames, last_dst, outsideDemo>>

\* frame(): submit, toggle ping and request the next frame
FrameSubmit ==
    /\ fpc = "rendered"
    /\ ping' = ~ping
    /\ frames' = frames + 1
    /\ last_dst' = pass.dst
    /\ fpc' = "idle"
    /\ UNCHANGED <<program, uSize, bufferA, bufferB, pass, outsideDemo>>

NextDemo ==
    \/ FrameCompute
    \/ FrameRender
    \/ FrameSubmit

SpecDemo == InitDemo /\ [][NextDemo]_vars

----------------------------------------------------------------------------
(* The host: the listeners of InteractionController (src/src/interaction.ts) *)
(* with the simulation and the renderer they call.                          *)

\* the characters of an element's value, and the values
Alphabet == {"0", "2", "-", "+", " ", "x"}
Values == UNION { [1 .. k -> Alphabet] : k \in 0 .. MaxValueLen }
ScenarioNames == {"disk", "collision"}

DigitValue == ("0" :> 0 @@ "1" :> 1 @@ "2" :> 2 @@ "3" :> 3 @@ "4" :> 4
               @@ "5" :> 5 @@ "6" :> 6 @@ "7" :> 7 @@ "8" :> 8 @@ "9" :> 9)

RECURSIVE SkipWhite(_)
SkipWhite(str) ==
    IF str # <<>> /\ Head(str) = " " THEN SkipWhite(Tail(str)) ELSE str

\* the longest prefix of digits
RECURSIVE DigitRun(_)
DigitRun(str) ==
    IF str # <<>> /\ Head(str) \in DOMAIN DigitValue
    THEN <<Head(str)>> \o DigitRun(Tail(str))
    ELSE <<>>

RECURSIVE Decimal(_, _)
Decimal(acc, digits) ==
    IF digits = <<>> THEN acc
    ELSE Decimal(10 * acc + DigitValue[Head(digits)], Tail(digits))

\* parseInt(str, 10): leading white space is skipped, a sign is taken, the
\* digits up to the first other character are read; NaN when there is none
parseInt(str) ==
    LET trimmed == SkipWhite(str)
        signed == trimmed # <<>> /\ Head(trimmed) \in {"-", "+"}
        digits == DigitRun(IF signed THEN Tail(trimmed) ELSE trimmed)
    IN  IF digits = <<>> THEN [nan |-> TRUE, value |-> 0]
        ELSE [nan |-> FALSE,
              value |-> IF signed /\ Head(trimmed) = "-"
                        THEN -Decimal(0, digits) ELSE Decimal(0, digits)]

\* sim.setNumBodies: the body arrays are reallocated and reseeded for the count
sim_setNumBodies(numBodies) ==
    /\ simNumBodies' = numBodies
    /\ simPos' = allocs
    /\ allocs' = allocs + 1
    /\ queue' = Append(queue, [op |-> "writeBuffer", n |-> numBodies])
    /\ UNCHANGED simScenario

\* sim.setScenario: the body arrays are reallocated and reseeded for the scenario
sim_setScenario(scenario) ==
    /\ simScenario' = scenario
    /\ simPos' = allocs
    /\ allocs' = allocs + 1
    /\ queue' = Append(queue, [op |-> "writeBuffer", n |-> simNumBodies])
    /\ UNCHANGED simNumBodies

renderer_setNumBodies(numBodies) == rendNumBodies' = numBodies
renderer_rebindSimBuffers(pos) == rendPos' = pos

updateNumBodies(numBodies) ==
    /\ sim_setNumBodies(numBodies)
    /\ renderer_setNumBodies(simNumBodies')
    /\ renderer_rebindSimBuffers(simPos')
    /\ calls' = <<<<"sim.setNumBodies", numBodies>>,
                  <<"renderer.setNumBodies", simNumBodies'>>,
                  <<"renderer.rebindSimBuffers", simPos'>>>>

\* updateScenario leaving the renderer bound to the buffer it had
updateScenarioNoRebind(scenario) ==
    /\ sim_setScenario(scenario)
    /\ calls' = <<<<"sim.setScenario", scenario>>>>
    /\ UNCHANGED <<rendNumBodies, rendPos>>

updateScenario(scenario) ==
    /\ sim_setScenario(scenario)
    /\ renderer_rebindSimBuffers(simPos')
    /\ calls' = <<<<"sim.setScenario", scenario>>,
                  <<"renderer.rebindSimBuffers", simPos'>>>>
    /\ UNCHANGED rendNumBodies

\* the parts of the host a listener leaves alone
frameTask == <<js, encoder, devNumBodies, running, done, executed, steps>>

\* the "change" listener of numBodiesSelect letting the count 0 through
numBodiesListenerFromZero(value) ==
    /\ js = "idle"
    /\ events < MaxEvents
    /\ events' = events + 1
    /\ lastEvent' = "numBodies"
    /\ lastValue' = value
    /\ LET numBodies == parseInt(value)
       IN  IF numBodies.nan \/ numBodies.value < 0
           THEN /\ calls' = <<>>
                /\ UNCHANGED <<simNumBodies, simPos, simScenario, rendNumBodies,
                               rendPos, allocs, queue>>
           ELSE updateNumBodies(numBodies.value)
    /\ UNCHANGED <<frameTask, outsideHost>>

\* the "change" listener of numBodiesSelect run in the middle of a frame task
numBodiesListenerAnytime(value) ==
    /\ events < MaxEvents
    /\ events' = events + 1
    /\ lastEvent' = "numBodies"
    /\ lastValue' = value
    /\ LET numBodies == parseInt(value)
       IN  IF numBodies.nan \/ numBodies.value <= 0
           THEN /\ calls' = <<>>
                /\ UNCHANGED <<simNumBodies, simPos, simScenario, rendNumBodies,
                               rendPos, allocs, queue>>
           ELSE updateNumBodies(numBodies.value)
    /\ UNCHANGED <<frameTask, outsideHost>>

\* the "change" listener of numBodiesSelect run by the event loop
numBodiesListener(value) ==
    /\ js = "idle"
    /\ events < MaxEvents
    /\ events' = events + 1
    /\ lastEvent' = "numBodies"
    /\ lastValue' = value
    /\ LET numBodies == parseInt(value)
       IN  IF numBodies.nan \/ numBodies.value <= 0
           THEN /\ calls' = <<>>
                /\ UNCHANGED <<simNumBodies, simPos, simScenario, rendNumBodies,
                               rendPos, allocs, queue>>
           ELSE updateNumBodies(numBodies.value)
    /\ UNCHANGED <<frameTask, outsideHost>>

\* the "change" listener of scenarioSelect run by the event loop
scenarioListener(value) ==
    /\ js = "idle"
    /\ events < MaxEvents
    /\ events' = events + 1
    /\ lastEvent' = "scenario"
    /\ lastValue' = value
    /\ updateScenario(value)
    /\ UNCHANGED <<frameTask, outsideHost>>

\* the GPU takes a write off the queue
GpuWrite ==
    /\ running = NoDispatch
    /\ queue # <<>>
    /\ Head(queue).op = "writeBuffer"
    /\ devNumBodies' = Head(queue).n
    /\ queue' = Tail(queue)
    /\ UNCHANGED <<simNumBodies, simPos, simScenario, rendNumBodies, rendPos, allocs,
                   js, encoder, running, done, executed, steps, events, lastEvent,
                   lastValue, calls, outsideHost>>

\* controller, simulation and renderer as constructed
InitHost ==
    /\ CollisionIdle
    /\ DemoIdle
    /\ LbvhIdle
    /\ GridIdle
    /\ simNumBodies \in 1 .. 2
    /\ simPos = 0
    /\ simScenario = "disk"
    /\ rendNumBodies = simNumBodies
    /\ rendPos = simPos
    /\ allocs = 1
    /\ js = "idle"
    /\ encoder = <<>>
    /\ queue = <<>>
    /\ devNumBodies = simNumBodies
    /\ running = NoDispatch
    /\ done = {}
    /\ executed = {}
    /\ steps = 0
    /\ events = 0
    /\ lastEvent = "none"
    /\ lastValue = <<>>
    /\ calls = <<>>

NextUI ==
    \/ \E value \in Values : numBodiesListener(value)
    \/ \E value \in ScenarioNames : scenarioListener(value)
    \/ GpuWrite

SpecUI == InitHost /\ [][NextUI]_vars

----------------------------------------------------------------------------
(* A simulation step: the frame task encodes the dispatches of the step in *)
(* order and submits them; the GPU takes the queue in order, a dispatch at *)
(* a time, its workers in any order.                                       *)

\* the dispatches of a step, in the order they are encoded
Dispatches == <<"sort", "build", "aggregate", "gravity", "collision_detect",
                "collision_apply">>

\* the values of numBodiesSelect the step model is run with
LoopValues == {<<"1">>, <<"2">>, <<"x">>}

\* the workers of a dispatch over n bodies: one per body, or one per internal
\* node for the build
WorkersOf(name, n) == IF name = "build" THEN 0 .. n - 2 ELSE 0 .. n - 1

\* the state a frame task leaves alone
uiState == <<simNumBodies, simPos, simScenario, rendNumBodies, rendPos, allocs,
             events, lastEvent, lastValue, calls>>

\* the frame task starts when the event loop is free
StepBegin ==
    /\ js = "idle"
    /\ steps < MaxSteps
    /\ js' = "frame"
    /\ encoder' = <<>>
    /\ UNCHANGED <<uiState, queue, devNumBodies, running, done, executed, steps,
                   outsideHost>>

\* the next dispatch of the step is encoded, over the arrays and for the
\* body count the simulation has now
StepEncode ==
    /\ js = "frame"
    /\ Len(encoder) < Len(Dispatches)
    /\ encoder' = Append(encoder,
                    [op |-> "dispatch", step |-> steps, k |-> Len(encoder) + 1,
                     name |-> Dispatches[Len(encoder) + 1],
                     count |-> simNumBodies, arrays |-> simPos])
    /\ UNCHANGED <<uiState, js, queue, devNumBodies, running, done, executed, steps,
                   outsideHost>>

\* the command buffer of the step is submitted and the task ends
StepSubmit ==
    /\ js = "frame"
    /\ Len(encoder) = Len(Dispatches)
    /\ queue' = queue \o encoder
    /\ encoder' = <<>>
    /\ js' = "idle"
    /\ steps' = steps + 1
    /\ UNCHANGED <<uiState, devNumBodies, running, done, executed, outsideHost>>

\* the GPU starts the dispatch at the head of the queue
GpuStart ==
    /\ running = NoDispatch
    /\ queue # <<>>
    /\ Head(queue).op = "dispatch"
    /\ running' = Head(queue)
    /\ queue' = Tail(queue)
    /\ done' = {}
    /\ UNCHANGED <<uiState, js, encoder, devNumBodies, executed, steps, outsideHost>>

RunningWorkers ==
    IF running = NoDispatch THEN {} ELSE WorkersOf(running.name, running.count)

\* a worker of the dispatch in flight runs
GpuWorker(w) ==
    /\ running # NoDispatch
    /\ w \in RunningWorkers \ done
    /\ done' = done \cup {w}
    /\ executed' = executed \cup
          {[step |-> running.step, k |-> running.k, name |-> running.name, w |-> w,
            num_bodies |-> devNumBodies, count |-> running.count,
            arrays |-> running.arrays]}
    /\ UNCHANGED <<uiState, js, encoder, queue, devNumBodies, running, steps,
                   outsideHost>>

\* GpuRetire letting the next dispatch start once one worker has finished
GpuRetireEarly ==
    /\ running # NoDispatch
    /\ done # {} \/ WorkersOf(running.name, running.count) = {}
    /\ running' = NoDispatch
    /\ done' = {}
    /\ UNCHANGED <<uiState, js, encoder, queue, devNumBodies, executed, steps,
                   outsideHost>>

\* the barrier: the dispatch in flight retires when all its workers have finished
GpuRetire ==
    /\ running # NoDispatch
    /\ done = WorkersOf(running.name, running.count)
    /\ running' = NoDispatch
    /\ done' = {}
    /\ UNCHANGED <<uiState, js, encoder, queue, devNumBodies, executed, steps,
                   outsideHost>>

NextLoop ==
    \/ \E value \in LoopValues : numBodiesListener(value)
    \/ \E value \in ScenarioNames : scenarioListener(value)
    \/ StepBegin
    \/ StepEncode
    \/ StepSubmit
    \/ GpuWrite
    \/ GpuStart
    \/ \E w \in RunningWorkers : GpuWorker(w)
    \/ GpuRetire

SpecLoop == InitHost /\ [][NextLoop]_vars

----------------------------------------------------------------------------
(* LBVH construction: one worker per internal node derives the node's leaf *)
(* range and split from the common-prefix lengths of the sorted codes.     *)

\* bits of a Morton code, and of a sorted position (the key of equal codes)
MortonBits == 3
IndexBits == 3

\* the number of leading bits two w-bit numbers share
RECURSIVE CommonPrefix(_, _, _)
CommonPrefix(a, b, w) ==
    IF a = b THEN w ELSE CommonPrefix(a \div 2, b \div 2, w - 1)

\* delta comparing the codes alone
delta_codes_only(codes, n, i, j) ==
    IF j < 0 \/ j > n - 1 THEN -1
    ELSE CommonPrefix(codes[i], codes[j], MortonBits)

\* the common-prefix length of the keys at sorted positions i and j, -1 when
\* j is outside the array; equal codes are told apart by the position
delta(codes, n, i, j) ==
    IF j < 0 \/ j > n - 1 THEN -1
    ELSE IF codes[i] # codes[j] THEN CommonPrefix(codes[i], codes[j], MortonBits)
    ELSE MortonBits + CommonPrefix(i, j, IndexBits)

Sign(x) == IF x > 0 THEN 1 ELSE IF x < 0 THEN -1 ELSE 0

\* the other end j of the range of internal node i and the split position:
\* the children cover min(i, j) .. split and split + 1 .. max(i, j)
RangeAndSplit(codes, n, i) ==
    LET d == Sign(delta(codes, n, i, i + 1) - delta(codes, n, i, i - 1))
        delta_min == delta(codes, n, i, i - d)
        grow[l_max \in Nat] ==
            IF delta(codes, n, i, i + l_max * d) > delta_min THEN grow[2 * l_max]
            ELSE l_max
        length[p \in Nat \X Nat] ==
            IF p[2] = 0 THEN p[1]
            ELSE length[<<IF delta(codes, n, i, i + (p[1] + p[2]) * d) > delta_min
                          THEN p[1] + p[2] ELSE p[1],
                          p[2] \div 2>>]
        l == length[<<0, grow[2] \div 2>>]
        j == i + l * d
        delta_node == delta(codes, n, i, j)
        split[p \in Nat \X Nat] ==
            LET t == (p[2] + 1) \div 2
                s == IF delta(codes, n, i, i + (p[1] + t) * d) > delta_node
                     THEN p[1] + t ELSE p[1]
            IN  IF t > 1 THEN split[<<s, t>>] ELSE s
    IN  [j |-> j, split |-> i + split[<<0, l>>] * d + (IF d < 0 THEN d ELSE 0)]

\* the children of internal node i: a child covering one sorted position is
\* that position's leaf, node n - 1 + position
ChildrenOf(codes, n, i) ==
    LET r == RangeAndSplit(codes, n, i)
        lo == IF i < r.j THEN i ELSE r.j
        hi == IF i < r.j THEN r.j ELSE i
    IN  [left_child  |-> IF lo = r.split THEN n - 1 + r.split ELSE r.split,
         right_child |-> IF hi = r.split + 1 THEN n - 1 + r.split + 1 ELSE r.split + 1]

\* the ascending arrays of n codes
SortedCodes(n) ==
    { c \in [0 .. n - 1 -> 0 .. 2 ^ MortonBits - 1] :
        \A a \in 0 .. n - 2 : c[a] <= c[a + 1] }

InitBuild ==
    /\ CollisionIdle
    /\ DemoIdle
    /\ HostIdle
    /\ GridIdle
    /\ leaf_count \in 2 .. MaxLeaves
    /\ morton_codes \in SortedCodes(leaf_count)
    /\ topology = <<>>
    /\ parent = <<>>
    /\ node_status = <<>>
    /\ aggregate = <<>>
    /\ worker = <<>>
    /\ arrivals = <<>>
    /\ writers = <<>>

\* the build worker of internal node i
BuildNode(i) ==
    /\ i \in 0 .. leaf_count - 2
    /\ i \notin DOMAIN topology
    /\ morton_codes # <<>>
    /\ LET c == ChildrenOf(morton_codes, leaf_count, i)
       IN  /\ topology' = (i :> c) @@ topology
           /\ parent' = (c.left_child :> i) @@ (c.right_child :> i) @@ parent
    /\ UNCHANGED <<leaf_count, morton_codes, node_status, aggregate, worker, arrivals,
                   writers, outsideLbvh>>

NextBuild == \E i \in 0 .. leaf_count - 2 : BuildNode(i)

SpecBuild == InitBuild /\ [][NextBuild]_vars

----------------------------------------------------------------------------
(* LBVH aggregation: one worker per leaf writes the leaf's aggregate and    *)
(* climbs; at each parent it increments the arrival counter atomically, the *)
(* first arrival stops and the second merges the children into the parent.  *)

\* an aggregate not yet written, a leaf's aggregate, the merge of two
Unset == [set |-> FALSE, leaves |-> {}, mass |-> 0]
LeafAggregate(p) == [set |-> TRUE, leaves |-> {p}, mass |-> p + 1]
Merge(a, b) == [set |-> TRUE, leaves |-> a.leaves \cup b.leaves, mass |-> a.mass + b.mass]

InitAgg ==
    /\ CollisionIdle
    /\ DemoIdle
    /\ HostIdle
    /\ GridIdle
    /\ leaf_count \in 1 .. MaxAggLeaves
    /\ morton_codes = <<>>
    /\ \E shape \in TreeShapes(leaf_count) :
          /\ topology = [i \in DOMAIN shape |->
                           [left_child |-> shape[i].left_child,
                            right_child |-> shape[i].right_child]]
          /\ parent = [x \in 1 .. 2 * leaf_count - 2 |->
                         CHOOSE i \in DOMAIN shape :
                             shape[i].left_child = x \/ shape[i].right_child = x]
    /\ node_status = [i \in 0 .. leaf_count - 2 |-> 0]
    /\ aggregate = [x \in 0 .. 2 * leaf_count - 2 |-> Unset]
    /\ worker = [w \in 0 .. leaf_count - 1 |-> [at |-> leaf_count - 1 + w, pc |-> "init"]]
    /\ arrivals = [i \in 0 .. leaf_count - 2 |-> <<>>]
    /\ writers = [i \in 0 .. leaf_count - 2 |-> <<>>]

\* the worker initialises its leaf
AggLeaf(w) ==
    /\ worker[w].pc = "init"
    /\ aggregate' = [aggregate EXCEPT ![worker[w].at] = LeafAggregate(w)]
    /\ worker' = [worker EXCEPT ![w].pc = IF worker[w].at = 0 THEN "done" ELSE "arrive"]
    /\ UNCHANGED <<leaf_count, morton_codes, topology, parent, node_status, arrivals,
                   writers, outsideLbvh>>

\* AggArrive with the first arrival going on and the second stopping
AggArriveFirstGoesOn(w) ==
    /\ worker[w].pc = "arrive"
    /\ LET p == parent[worker[w].at]
           old == node_status[p]
       IN  /\ node_status' = [node_status EXCEPT ![p] = old + 1]
           /\ arrivals' = [arrivals EXCEPT ![p] = Append(@, w)]
           /\ worker' = [worker EXCEPT ![w] =
                           IF old = 0 THEN [at |-> p, pc |-> "merge"]
                           ELSE [at |-> worker[w].at, pc |-> "done"]]
    /\ UNCHANGED <<leaf_count, morton_codes, topology, parent, aggregate, writers,
                   outsideLbvh>>

\* the worker increments the arrival counter of the parent: the first arrival
\* stops, the second goes on to the parent
AggArrive(w) ==
    /\ worker[w].pc = "arrive"
    /\ LET p == parent[worker[w].at]
           old == node_status[p]
       IN  /\ node_status' = [node_status EXCEPT ![p] = old + 1]
           /\ arrivals' = [arrivals EXCEPT ![p] = Append(@, w)]
           /\ worker' = [worker EXCEPT ![w] =
                           IF old = 0 THEN [at |-> worker[w].at, pc |-> "done"]
                           ELSE [at |-> p, pc |-> "merge"]]
    /\ UNCHANGED <<leaf_count, morton_codes, topology, parent, aggregate, writers,
                   outsideLbvh>>

\* the worker merges the children's aggregates into the node it climbed to
AggMerge(w) ==
    /\ worker[w].pc = "merge"
    /\ LET x == worker[w].at
       IN  /\ aggregate' = [aggregate EXCEPT ![x] =
                               Merge(aggregate[topology[x].left_child],
                                     aggregate[topology[x].right_child])]
           /\ writers' = [writers EXCEPT ![x] = Append(@, w)]
           /\ worker' = [worker EXCEPT ![w].pc = IF x = 0 THEN "done" ELSE "arrive"]
    /\ UNCHANGED <<leaf_count, morton_codes, topology, parent, node_status, arrivals,
                   outsideLbvh>>

NextAgg ==
    \/ \E w \in DOMAIN worker : AggLeaf(w)
    \/ \E w \in DOMAIN worker : AggArrive(w)
    \/ \E w \in DOMAIN worker : AggMerge(w)

SpecAgg == InitAgg /\ [][NextAgg]_vars

\* some worker that can take a step eventually takes one
FairSpecAgg == SpecAgg /\ WF_vars(NextAgg)

----------------------------------------------------------------------------
(* Fluid grid: the staggered velocities u and v and the dye at cell        *)
(* centres, sampled bilinearly by the advection pass.                      *)

HALF == FRAC \div 2
\* floatMetadata[0], 0.016
delta_time == 16
\* the columns of the dye line index.ts seeds: left_x .. right_x - 1
left_x == 20
right_x == 40

idx_u(i, j) == (j * (uint_metadata.width + 1) + i) % U32
idx_v(i, j) == (j * uint_metadata.width + i) % U32
idx_center(i, j) == (j * uint_metadata.width + i) % U32

\* clamp(e, low, high) of two f32 values
fclamp(e, low, high) == Min(Max(e, low), high)
\* u32(floor(e)): the conversion takes a negative value to 0
u32_floor(e) == IF e < 0 THEN 0 ELSE e \div FRAC

\* the four elements sample_u, sample_v and sample_dye read at (x, y), in the
\* order of the loads, and the weights s and t
sample_u_reads(x, y) ==
    LET x_c == fclamp(x, 0, uint_metadata.width * FRAC)
        y_c == fclamp(y, HALF, uint_metadata.height * FRAC - HALF)
        i == u32_floor(x_c)
        j == u32_floor(y_c - HALF)
    IN  [fn |-> "sample_u", at |-> <<x, y>>,
         s |-> x_c - i * FRAC, t |-> y_c - j * FRAC - HALF,
         idx |-> <<idx_u(i, j), idx_u(i + 1, j), idx_u(i, j + 1), idx_u(i + 1, j + 1)>>]

sample_v_reads(x, y) ==
    LET x_c == fclamp(x, HALF, uint_metadata.width * FRAC - HALF)
        y_c == fclamp(y, 0, uint_metadata.height * FRAC)
        i == u32_floor(x_c - HALF)
        j == u32_floor(y_c)
    IN  [fn |-> "sample_v", at |-> <<x, y>>,
         s |-> x_c - i * FRAC - HALF, t |-> y_c - j * FRAC,
         idx |-> <<idx_v(i, j), idx_v(i + 1, j), idx_v(i, j + 1), idx_v(i + 1, j + 1)>>]

sample_dye_reads(x, y) ==
    LET x_c == fclamp(x, HALF, uint_metadata.width * FRAC - HALF)
        y_c == fclamp(y, HALF, uint_metadata.height * FRAC - HALF)
        i == u32_floor(x_c - HALF)
        j == u32_floor(y_c - HALF)
    IN  [fn |-> "sample_dye", at |-> <<x, y>>,
         s |-> x_c - i * FRAC - HALF, t |-> y_c - j * FRAC - HALF,
         idx |-> <<idx_center(i, j), idx_center(i + 1, j),
                   idx_center(i, j + 1), idx_center(i + 1, j + 1)>>]

\* what a load of element k of a storage buffer can yield: the element, or,
\* past the end of the buffer, zero or any element of the buffer
LoadOutcomes(buf, k) ==
    IF k \in DOMAIN buf THEN {buf[k]} ELSE {0} \cup {buf[n] : n \in DOMAIN buf}

\* the values the weighted sum of the four loads can have
Bilinear(buf, r) ==
    {   FMul(FMul(FRAC - r.s, FRAC - r.t), c[1])
      + FMul(FMul(r.s, FRAC - r.t), c[2])
      + FMul(FMul(FRAC - r.s, r.t), c[3])
      + FMul(FMul(r.s, r.t), c[4]) :
        c \in LoadOutcomes(buf, r.idx[1]) \X LoadOutcomes(buf, r.idx[2])
              \X LoadOutcomes(buf, r.idx[3]) \X LoadOutcomes(buf, r.idx[4]) }

sample_u(x, y) == Bilinear(uBuffer, sample_u_reads(x, y))
sample_v(x, y) == Bilinear(vBuffer, sample_v_reads(x, y))
sample_dye(x, y) == Bilinear(dyeBuffer, sample_dye_reads(x, y))

\* the test the three blocks of advect_main make of their position
InsideGrid(x, y) ==
    x > 0 /\ x < uint_metadata.width * FRAC /\ y > 0 /\ y < uint_metadata.height * FRAC

NoStore == [calls |-> <<>>, stored |-> FALSE, value |-> 0]

\* the blocks of advect_main for cell (i, j): the sampler calls made and the
\* value stored, for each outcome of the loads
advect_u(i, j) ==
    LET x == i * FRAC
        y == j * FRAC + HALF
    IN  IF ~InsideGrid(x, y) THEN {NoStore}
        ELSE UNION {
            LET x_prev == x - FMul(delta_time, uBuffer[idx_u(i, j)])
                y_prev == y - FMul(delta_time, vel_y)
            IN  {[calls |-> <<sample_v_reads(x, y), sample_u_reads(x_prev, y_prev)>>,
                  stored |-> TRUE, value |-> val] : val \in sample_u(x_prev, y_prev)}
            : vel_y \in sample_v(x, y)}

advect_v(i, j) ==
    LET x == i * FRAC + HALF
        y == j * FRAC
    IN  IF ~InsideGrid(x, y) THEN {NoStore}
        ELSE UNION {
            LET x_prev == x - FMul(delta_time, vel_x)
                y_prev == y - FMul(delta_time, vBuffer[idx_v(i, j)])
            IN  {[calls |-> <<sample_u_reads(x, y), sample_v_reads(x_prev, y_prev)>>,
                  stored |-> TRUE, value |-> val] : val \in sample_v(x_prev, y_prev)}
            : vel_x \in sample_u(x, y)}

advect_dye(i, j) ==
    LET x == i * FRAC + HALF
        y == j * FRAC + HALF
    IN  IF ~InsideGrid(x, y) THEN {NoStore}
        ELSE UNION {
            LET x_prev == x - FMul(delta_time, vel[1])
                y_prev == y - FMul(delta_time, vel[2])
            IN  {[calls |-> <<sample_u_reads(x, y), sample_v_reads(x, y),
                              sample_dye_reads(x_prev, y_prev)>>,
                  stored |-> TRUE, value |-> val] : val \in sample_dye(x_prev, y_prev)}
            : vel \in sample_u(x, y) \X sample_v(x, y)}

\* the positions the samplers are tried at: a quarter of a cell apart, from one
\* cell before the grid to one cell past it
SamplePositions(cells) == {k * (FRAC \div 4) : k \in -4 .. 4 * (cells + 1)}

\* the buffers as index.ts fills them
InitGrid ==
    /\ CollisionIdle
    /\ DemoIdle
    /\ HostIdle
    /\ LbvhIdle
    /\ \E width \in 1 .. MaxGridWidth, height \in 1 .. MaxGridHeight :
          /\ uint_metadata = [width |-> width, height |-> height]
          /\ uBuffer = [k \in 0 .. (width + 1) * height - 1 |-> 0]
          /\ vBuffer = [k \in 0 .. width * (height + 1) - 1 |-> 0]
          /\ newUBuffer = [k \in 0 .. (width + 1) * height - 1 |-> 0]
          /\ newVBuffer = [k \in 0 .. width * (height + 1) - 1 |-> 0]
          /\ dyeBuffer = [k \in 0 .. width * height - 1 |->
                            IF \E y \in 0 .. height - 1, x \in left_x .. right_x - 1 :
                                   y * width + x = k
                            THEN FRAC ELSE 0]
          /\ newDyeBuffer = [k \in 0 .. width * height - 1 |-> 0]
          /\ sample_at \in SamplePositions(width) \X SamplePositions(height)
    /\ taps = <<>>

\* one invocation of advect_main
advect_main(i, j) ==
    /\ uint_metadata.width > 0
    /\ IF i >= uint_metadata.width \/ j >= uint_metadata.height
       THEN /\ taps' = <<>>
            /\ UNCHANGED <<newUBuffer, newVBuffer, newDyeBuffer>>
       ELSE \E a \in advect_u(i, j), b \in advect_v(i, j), c \in advect_dye(i, j) :
               /\ taps' = a.calls \o b.calls \o c.calls
               /\ newUBuffer' = IF a.stored
                                THEN [newUBuffer EXCEPT ![idx_u(i, j)] = a.value]
                                ELSE newUBuffer
               /\ newVBuffer' = IF b.stored
                                THEN [newVBuffer EXCEPT ![idx_v(i, j)] = b.value]
                                ELSE newVBuffer
               /\ newDyeBuffer' = IF c.stored
                                  THEN [newDyeBuffer EXCEPT ![idx_center(i, j)] = c.value]
                                  ELSE newDyeBuffer
    /\ UNCHANGED <<uint_metadata, uBuffer, vBuffer, dyeBuffer, sample_at, outsideGrid>>

\* a sampler applied to the position sample_at
SampleAt(call) ==
    /\ uint_metadata.width > 0
    /\ taps' = <<call>>
    /\ UNCHANGED <<uint_metadata, uBuffer, vBuffer, dyeBuffer, newUBuffer, newVBuffer,
                   newDyeBuffer, sample_at, outsideGrid>>

SampleU == SampleAt(sample_u_reads(sample_at[1], sample_at[2]))
SampleV == SampleAt(sample_v_reads(sample_at[1], sample_at[2]))
SampleDye == SampleAt(sample_dye_reads(sample_at[1], sample_at[2]))

NextGrid ==
    \/ \E i \in 0 .. uint_metadata.width, j \in 0 .. uint_metadata.height : advect_main(i, j)
    \/ SampleU
    \/ SampleV
    \/ SampleDye

SpecGrid == InitGrid /\ [][NextGrid]_vars

----------------------------------------------------------------------------
(* Properties                                                              *)

Bodies == 0 .. num_bodies - 1

\* the invocations of a dispatch that own a body
Workers == { t \in DOMAIN pc : t < num_bodies }

\* the function-scope variables at the end of the loop of invocation t when it
\* runs alone on the buffers the pass started with
SoloLocals(t) ==
    RunLoop(EnterLocals(t, body_indices, input.pos, input.vel, mass_buf),
            num_bodies, body_indices, node_data, input.pos, input.vel, mass_buf)

\* C1: whatever the order in which the invocations of the two dispatches ran,
\* every invocation leaves the loop with the values it computes when run alone
\* on the inputs, and after detect and apply the live position and velocity of
\* every body are the ones that invocation computes alone.
C1_OrderIndependent ==
    /\ \A t \in DOMAIN loc : loc[t] = SoloLocals(t)
    /\ phase = "done" =>
          \A t \in Workers :
              /\ pos_buf[body_indices[t]] = FinishPos(SoloLocals(t))
              /\ vel_buf[body_indices[t]] = FinishVel(SoloLocals(t))

\* the pass is over and two bodies that collided with each other were both moved
C1_Witness ==
    /\ phase = "done"
    /\ \E a, b \in Bodies :
          /\ a # b
          /\ vel_buf[a] # input.vel[a]
          /\ vel_buf[b] # input.vel[b]
          /\ pos_buf[a] # input.pos[a]
          /\ pos_buf[b] # input.pos[b]

\* C2: no step of the detect dispatch changes pos_buf, vel_buf, mass_buf,
\* body_indices or node_data, and every store of the detect dispatch is to
\* pos_scratch or vel_scratch.
C2_DetectWritesScratchOnly ==
    /\ [][phase = "detect" =>
            UNCHANGED <<pos_buf, vel_buf, mass_buf, body_indices, node_data>>]_vars
    /\ [](\A w \in writes :
            w[1] = "detect" => w[3] \in {"pos_scratch", "vel_scratch"})

\* the detect dispatch is in flight and an invocation has stored a result that
\* differs from the live state
C2_Witness ==
    /\ phase = "detect"
    /\ \E w \in writes :
          /\ w[1] = "detect"
          /\ pos_scratch[w[4]] # pos_buf[w[4]]
          /\ vel_scratch[w[4]] # vel_buf[w[4]]

\* the stores of invocation t in dispatch d
WritesOf(d, t) == { <<w[3], w[4]>> : w \in { x \in writes : x[1] = d /\ x[2] = t } }

\* C3: body_indices being a permutation of the body ids, within a dispatch no
\* element of a buffer is stored to by two invocations; an invocation that has
\* returned stored exactly the element body_indices[thread_idx] of the two
\* output buffers of its dispatch if thread_idx < num_bodies and nothing
\* otherwise.
C3_OneSlotPerWorker ==
    /\ \A w1, w2 \in writes :
          (w1[1] = w2[1] /\ w1[3] = w2[3] /\ w1[4] = w2[4]) => w1[2] = w2[2]
    /\ \A t \in DOMAIN pc :
          /\ (phase = "detect" /\ pc[t] = "done") =>
                WritesOf("detect", t) =
                    IF t < num_bodies
                    THEN {<<"pos_scratch", body_indices[t]>>,
                          <<"vel_scratch", body_indices[t]>>}
                    ELSE {}
          /\ (phase = "apply" /\ pc[t] = "done") =>
                WritesOf("apply", t) =
                    IF t < num_bodies
                    THEN {<<"pos_buf", body_indices[t]>>, <<"vel_buf", body_indices[t]>>}
                    ELSE {}
          /\ pc[t] = "ready" => WritesOf(phase, t) = {}

\* both dispatches have run over three bodies sorted in an order other than by id,
\* and the invocation beyond the bodies has returned
C3_Witness ==
    /\ phase = "done"
    /\ num_bodies >= 3
    /\ \A t \in Workers : body_indices[t] # t
    /\ \A t \in Workers : WritesOf("detect", t) # {} /\ WritesOf("apply", t) # {}
    /\ \E t \in DOMAIN pc : t >= num_bodies /\ pc[t] = "done"

\* C4: when the apply dispatch has retired, the live position and velocity
\* of every body equal its scratch position and velocity, which the detect
\* dispatch stored; the apply dispatch loaded no element of pos_buf or vel_buf.
C4_ApplyPublishesScratch ==
    /\ phase = "done" =>
          \A b \in Bodies :
              /\ pos_buf[b] = pos_scratch[b]
              /\ vel_buf[b] = vel_scratch[b]
              /\ \E t \in Workers : <<"pos_scratch", b>> \in WritesOf("detect", t)
              /\ \E t \in Workers : <<"vel_scratch", b>> \in WritesOf("detect", t)
    /\ \A r \in reads : r[1] # "apply"

\* the apply dispatch has retired and changed the live state of a body
C4_Witness ==
    /\ phase = "done"
    /\ \E b \in Bodies : pos_buf[b] # input.pos[b] /\ vel_buf[b] # input.vel[b]
    /\ \E a, b \in Bodies : vel_scratch[a] # vel_scratch[b]

\* the bodies within collision distance of body b and beyond the epsilon floor
Contacts(b) ==
    { o \in Bodies \ {b} :
        LET dist_sq == Dot(VSub(input.pos[b], input.pos[o]), VSub(input.pos[b], input.pos[o]))
        IN  DIST_SQ_FLOOR < dist_sq /\ dist_sq < (2 * RADIUS) * (2 * RADIUS) }

\* the contacts of body b that approach it
Approaching(b) ==
    { o \in Contacts(b) :
        RelVelNormal(input.pos[b], input.vel[b], input.pos[o], input.vel[o]) < 0 }

\* the invocations that have left the loop of the detect dispatch
Traversed == { t \in DOMAIN loc : loc[t].stack_ptr < 0 }

\* C5: every index at which the stack has been stored to lies in
\* 0 .. stack_size - 1, the stack pointer of an invocation in the loop is
\* -1 (loop exit) or an index in 0 .. stack_size - 1, and an iteration either
\* pushes both children (the pointer, popped once, rises by two) or pushes
\* nothing and leaves the stack as it is.
C5_StackInBounds ==
    /\ [](\A t \in DOMAIN loc :
            /\ DOMAIN loc[t].stack \subseteq 0 .. stack_size - 1
            /\ loc[t].stack_ptr \in -1 .. stack_size - 1)
    /\ [][\A t \in DOMAIN loc :
            \/ loc'[t] = loc[t]
            \/ /\ loc'[t].stack_ptr = loc[t].stack_ptr - 1
               /\ loc'[t].stack = loc[t].stack
            \/ /\ loc'[t].stack_ptr = loc[t].stack_ptr + 1
               /\ DOMAIN loc'[t].stack =
                     DOMAIN loc[t].stack \cup {loc[t].stack_ptr, loc[t].stack_ptr + 1}]_vars

\* an internal node was popped from a full stack and its children, which would
\* not fit, were not pushed
C5_Witness ==
    \E t \in DOMAIN loc :
        /\ pc[t] = "loop"
        /\ loc[t].stack_ptr = stack_size - 2
        /\ stack_size - 1 \in DOMAIN loc[t].stack
        /\ ~is_leaf(loc[t].stack[stack_size - 1], num_bodies)

\* the followed invocation has returned; if it owns a body its stack is empty
\* and it has stored its two scratch outputs
TraceReturned ==
    \A t \in TraceThreads :
        /\ pc[t] = "done"
        /\ t < num_bodies =>
              /\ loc[t].stack_ptr = -1
              /\ WritesOf("detect", t) = {<<"pos_scratch", body_indices[t]>>,
                                          <<"vel_scratch", body_indices[t]>>}

\* C6: over every tree of the configurations, the combs deeper than the
\* stack included, the loop of an invocation that keeps being scheduled ends with
\* an empty stack and the invocation stores its scratch outputs.
C6_TraversalTerminates == <>[]TraceReturned

\* the invocation has returned from a traversal in which the stack overflowed:
\* it met the leaves that were on the stack but not every contact of its body
C6_Witness ==
    \E t \in TraceThreads :
        /\ pc[t] = "done"
        /\ t < num_bodies
        /\ loc[t].collision_count > stack_size - 10
        /\ loc[t].collision_count < Cardinality(Contacts(body_indices[t]))
        /\ <<"pos_scratch", body_indices[t]>> \in WritesOf("detect", t)

RECURSIVE SumPosCorrection(_, _)
SumPosCorrection(b, S) ==
    IF S = {} THEN Zero
    ELSE LET o == CHOOSE x \in S : TRUE
         IN  VAdd(PosCorrection(input.pos[b], mass_buf[b], input.pos[o], mass_buf[o]),
                  SumPosCorrection(b, S \ {o}))

RECURSIVE SumVelChange(_, _)
SumVelChange(b, S) ==
    IF S = {} THEN Zero
    ELSE LET o == CHOOSE x \in S : TRUE
         IN  VAdd(resolve_collision(input.pos[b], input.vel[b], mass_buf[b],
                                    input.pos[o], input.vel[o], mass_buf[o]),
                  SumVelChange(b, S \ {o}))

\* C7 as claimed: a contact that is not approaching adds nothing to the
\* velocity delta, nothing to the position correction and nothing to the
\* collision count.
C7_Claimed ==
    \A t \in Traversed :
        LET b == loc[t].body_idx
        IN  /\ loc[t].collision_count = Cardinality(Approaching(b))
            /\ Approaching(b) = {} =>
                  loc[t].vel_change = Zero /\ loc[t].pos_correction = Zero

\* C7 as amended: a contact that is not approaching adds nothing to the
\* velocity delta, which is the sum of the impulses of the approaching contacts
\* alone, but it adds its position correction and it is counted in the
\* collision count: every contact, approaching or not, is.
C7_NotApproachingKeepsVelocity ==
    \A t \in Traversed :
        LET b == loc[t].body_idx
        IN  /\ loc[t].vel_change = SumVelChange(b, Approaching(b))
            /\ loc[t].collision_count = Cardinality(Contacts(b))
            /\ loc[t].pos_correction = SumPosCorrection(b, Contacts(b))
            /\ (Approaching(b) = {} /\ pc[t] = "done") => vel_scratch[b] = input.vel[b]

\* a body whose only contact is moving away from it has been given a position
\* correction and an unchanged velocity
C7_Witness ==
    \E t \in Traversed :
        LET b == loc[t].body_idx
        IN  /\ pc[t] = "done"
            /\ Contacts(b) # {}
            /\ Approaching(b) = {}
            /\ \E o \in Contacts(b) :
                  RelVelNormal(input.pos[b], input.vel[b], input.pos[o], input.vel[o]) > 0
            /\ pos_scratch[b] # input.pos[b]
            /\ vel_scratch[b] = input.vel[b]

\* C8: an invocation that has returned stored, for a body with k contacts,
\* the live velocity plus the sum of the k velocity deltas divided by k and the
\* live position plus the sum of the k position corrections divided by k; for
\* k = 1 these are the delta and the correction themselves.
C8_AverageOverContacts ==
    \A t \in Traversed :
        pc[t] = "done" =>
            LET b == loc[t].body_idx
                k == Cardinality(Contacts(b))
                dv == SumVelChange(b, Contacts(b))
                dp == SumPosCorrection(b, Contacts(b))
            IN  /\ k > 1 =>
                      /\ vel_scratch[b] = VAdd(input.vel[b], <<TDiv(dv[1], k), TDiv(dv[2], k)>>)
                      /\ pos_scratch[b] = VAdd(input.pos[b], <<TDiv(dp[1], k), TDiv(dp[2], k)>>)
                /\ k = 1 =>
                      /\ vel_scratch[b] = VAdd(input.vel[b], dv)
                      /\ pos_scratch[b] = VAdd(input.pos[b], dp)

\* a body with two approaching contacts has been stored with half the sum of
\* its deltas
C8_Witness ==
    \E t \in Traversed :
        LET b == loc[t].body_idx
            dv == SumVelChange(b, Contacts(b))
        IN  /\ pc[t] = "done"
            /\ Cardinality(Approaching(b)) = 2
            /\ dv[1] # 0 /\ dv[2] # 0
            /\ vel_scratch[b] # VAdd(input.vel[b], dv)
            /\ vel_scratch[b] # input.vel[b]

\* the other bodies at or below the epsilon floor from body b
NearDuplicates(b) ==
    { o \in Bodies \ {b} :
        Dot(VSub(input.pos[b], input.pos[o]), VSub(input.pos[b], input.pos[o]))
            <= DIST_SQ_FLOOR }

\* C9: the collision count of an invocation is the number of other bodies
\* whose squared distance lies strictly between the floor and (2 * RADIUS)^2; a
\* body whose every neighbour within collision distance is at or below the floor
\* has zero count, zero velocity delta and zero position correction.
C9_FloorSkipsPair ==
    \A t \in Traversed :
        LET b == loc[t].body_idx
        IN  /\ loc[t].collision_count = Cardinality(Contacts(b))
            /\ Contacts(b) = {} =>
                  /\ loc[t].vel_change = Zero
                  /\ loc[t].pos_correction = Zero
                  /\ pc[t] = "done" =>
                        vel_scratch[b] = input.vel[b] /\ pos_scratch[b] = input.pos[b]

\* a body with a coincident neighbour, a neighbour exactly at the floor and
\* no contact has been stored unchanged
C9_Witness ==
    \E t \in Traversed :
        LET b == loc[t].body_idx
        IN  /\ pc[t] = "done"
            /\ \E o \in NearDuplicates(b) : input.pos[o] = input.pos[b]
            /\ \E o \in NearDuplicates(b) :
                  Dot(VSub(input.pos[b], input.pos[o]), VSub(input.pos[b], input.pos[o]))
                      = DIST_SQ_FLOOR
            /\ Contacts(b) = {}
            /\ vel_scratch[b] = input.vel[b] /\ pos_scratch[b] = input.pos[b]

\* C10: with num_bodies = 0 no invocation reaches the loop (where n - 1u is
\* evaluated), loads from pos_buf or vel_buf or stores anything, in either
\* dispatch; with num_bodies = 1 the invocation of the body visits the root
\* alone, as the leaf of its own body, pushes nothing, loads no element of
\* another body, counts zero collisions, and the live position and velocity
\* stay as they were through detect and apply.
C10_DegenerateBodyCounts ==
    /\ num_bodies = 0 =>
          /\ loc = <<>>
          /\ \A t \in DOMAIN pc : pc[t] # "loop"
          /\ writes = {}
          /\ reads = {}
    /\ num_bodies = 1 =>
          /\ \A t \in DOMAIN loc :
                /\ is_leaf(0, num_bodies)
                /\ DOMAIN loc[t].stack = {0}
                /\ loc[t].collision_count = 0
                /\ loc[t].vel_change = Zero
                /\ loc[t].pos_correction = Zero
          /\ \A r \in reads : r[4] = body_indices[0]
          /\ \A w \in writes : w[2] = 0
          /\ pos_buf = input.pos
          /\ vel_buf = input.vel
          /\ phase # "detect" => pos_scratch = input.pos /\ vel_scratch = input.vel

\* the pass over a single moving body is over: its invocation stored to scratch
\* and to the live buffers, and the body is where it was
C10_Witness ==
    /\ phase = "done"
    /\ num_bodies = 1
    /\ input.vel[0] # Zero
    /\ <<"vel_scratch", 0>> \in WritesOf("detect", 0)
    /\ <<"vel_buf", 0>> \in WritesOf("apply", 0)
    /\ vel_buf = input.vel

----------------------------------------------------------------------------
\* the body of the pair with the smaller x, and the other one
LeftBody == IF input.pos[0][1] < input.pos[1][1] THEN 0 ELSE 1
RightBody == 1 - LeftBody

\* two equal-mass bodies level in y, overlapping, the left one moving right
\* at speed v and the right one moving left at speed v
HeadOn(v) ==
    /\ num_bodies = 2
    /\ mass_buf[0] = mass_buf[1]
    /\ v > 0
    /\ input.vel[LeftBody] = <<v, 0>>
    /\ input.vel[RightBody] = <<-v, 0>>
    /\ input.pos[0][2] = input.pos[1][2]
    /\ Colliding(Dot(VSub(input.pos[0], input.pos[1]), VSub(input.pos[0], input.pos[1])))

\* C11: after detect + apply over an overlapping equal-mass pair approaching
\* head-on along x with speeds +v and -v, each body's x-velocity has changed
\* sign and has magnitude RESTITUTION * v, and the two velocity changes are
\* equal and opposite.
C11_HeadOnRestitution ==
    \A v \in HeadOnSpeeds :
        (phase = "done" /\ HeadOn(v)) =>
            /\ vel_buf[LeftBody] = <<-FMul(RESTITUTION, v), 0>>
            /\ vel_buf[RightBody] = <<FMul(RESTITUTION, v), 0>>
            /\ VAdd(VSub(vel_buf[LeftBody], input.vel[LeftBody]),
                    VSub(vel_buf[RightBody], input.vel[RightBody])) = Zero

C11_Witness ==
    /\ phase = "done"
    /\ HeadOn(250)
    /\ vel_buf[LeftBody] = <<-200, 0>>
    /\ vel_buf[RightBody] = <<200, 0>>
    /\ mass_buf[0] = 4000

----------------------------------------------------------------------------
\* the sorted positions of the leaves below node x of node_data
RECURSIVE LeavesBelow(_)
LeavesBelow(x) ==
    IF is_leaf(x, num_bodies) THEN {x - (num_bodies - 1)}
    ELSE LeavesBelow(node_data[x].left_child) \cup LeavesBelow(node_data[x].right_child)

\* every internal node's box contains the position of every leaf below it
BoxesContainLeaves ==
    \A x \in 0 .. num_bodies - 2 :
        \A i \in LeavesBelow(x) :
            LET p == input.pos[body_indices[i]]
            IN  /\ node_data[x].aabb_min[1] <= p[1] /\ p[1] <= node_data[x].aabb_max[1]
                /\ node_data[x].aabb_min[2] <= p[2] /\ p[2] <= node_data[x].aabb_max[2]

\* the other bodies whose leaf invocation t reached (position loaded) and the
\* ones it took for colliding (velocity loaded)
LeavesReached(t) ==
    { r[4] : r \in { x \in reads : x[1] = "detect" /\ x[2] = t /\ x[3] = "pos_buf" } }
        \ {body_indices[t]}
PairsFound(t) ==
    { r[4] : r \in { x \in reads : x[1] = "detect" /\ x[2] = t /\ x[3] = "vel_buf" } }
        \ {body_indices[t]}

\* C18: when every internal box contains the leaves below it, the traversal of
\* a body reaches the leaf of every other body whose squared distance lies in
\* (0.0001, (2 * RADIUS)^2) and the pairs it finds and counts are exactly those
\* an all-pairs test finds.
C18_PruningConservative ==
    BoxesContainLeaves =>
        \A t \in Traversed :
            /\ Contacts(body_indices[t]) \subseteq LeavesReached(t)
            /\ PairsFound(t) = Contacts(body_indices[t])
            /\ loc[t].collision_count = Cardinality(PairsFound(t))

\* a traversal that pruned the subtree of the two far bodies (their leaves
\* never reached) and found its one contact
C18_Witness ==
    /\ BoxesContainLeaves
    /\ num_bodies = 4
    /\ \E t \in Traversed :
          /\ Cardinality(Contacts(body_indices[t])) = 1
          /\ LeavesReached(t) = Contacts(body_indices[t])
          /\ loc[t].collision_count = 1

----------------------------------------------------------------------------
\* the buffer the last submitted frame wrote (the seeded one before any frame)
CurrentBuffer == IF ping THEN bufferA ELSE bufferB

\* C16: in the shift-right demo, after any number of frames column 0 of the
\* current buffer still holds the seed value 1.0.
C16_Claimed ==
    (program = "shift_right" /\ fpc = "idle") =>
        \A y \in 0 .. uSize.height - 1 : CurrentBuffer[y * uSize.width] = FRAC

\* C17: in every frame the compute pass loads from one buffer set and stores to
\* the other, the render pass of the frame reads a buffer the compute pass of
\* the frame stored to, and from the second frame on the compute pass loads
\* from exactly the buffers the previous frame's compute pass stored to.
C17_PingPong ==
    /\ fpc \in {"computed", "rendered"} =>
          /\ pass.src # {} /\ pass.dst # {}
          /\ pass.src \cap pass.dst = {}
          /\ frames > 0 => pass.src = last_dst
    /\ fpc = "rendered" => pass.shown \in pass.dst

\* the third frame of the advection loop has been encoded
C17_Witness ==
    /\ program = "advect"
    /\ frames = 2
    /\ fpc = "rendered"
    /\ pass.src = {"uBuffer", "vBuffer", "dyeBuffer"}
    /\ last_dst = pass.src
    /\ pass.shown = "newDyeBuffer"

----------------------------------------------------------------------------
----------------------------------------------------------------------------
\* the dispatches of a step encoded or queued, and the workers that have run
Encoded == { encoder[i] : i \in DOMAIN encoder }
             \cup { c \in { queue[i] : i \in DOMAIN queue } : c.op = "dispatch" }
             \cup (IF running = NoDispatch THEN {} ELSE {running})

\* C15: the body count and the body arrays of the simulation change only while
\* no frame task is encoding a step, and all dispatches of one step are
\* encoded for, and all their workers see, one body count and one set of arrays.
C15_CountFixedWithinStep ==
    /\ [][ (simNumBodies' # simNumBodies \/ simPos' # simPos) =>
             (js = "idle" /\ encoder = <<>>) ]_vars
    /\ [](\A a, b \in Encoded :
            a.step = b.step => (a.count = b.count /\ a.arrays = b.arrays))
    /\ [](\A a, b \in executed :
            a.step = b.step =>
                /\ a.num_bodies = b.num_bodies
                /\ a.count = b.count
                /\ a.arrays = b.arrays
                /\ a.num_bodies = a.count)

\* a body-count change landed between two steps: every worker of the first
\* step saw one body and every worker of the second saw two
C15_Witness ==
    /\ steps = 2
    /\ queue = <<>>
    /\ running = NoDispatch
    /\ \E a, b \in executed :
          /\ a.step = 0 /\ a.num_bodies = 1
          /\ b.step = 1 /\ b.num_bodies = 2 /\ b.arrays # a.arrays
          /\ b.name = "collision_apply"

\* C12: the dispatches of a step run in the order sort, build, aggregate,
\* gravity, collision-detect, collision-apply, and when a worker of a dispatch
\* runs every worker of every earlier dispatch of the step has finished: no
\* detect worker runs before every aggregate worker has, no apply worker
\* before every detect worker has.
C12_DispatchBarriers ==
    /\ \A e \in executed :
          /\ e.name = Dispatches[e.k]
          /\ \A j \in 1 .. e.k - 1 :
                \A w \in WorkersOf(Dispatches[j], e.count) :
                    \E f \in executed : f.step = e.step /\ f.k = j /\ f.w = w
    /\ \A i, j \in DOMAIN encoder : i < j => encoder[i].k < encoder[j].k
    /\ \A i, j \in DOMAIN queue :
          (i < j /\ queue[i].op = "dispatch" /\ queue[j].op = "dispatch")
              => <<queue[i].step, queue[i].k>> # <<queue[j].step, queue[j].k>>
                 /\ (queue[i].step < queue[j].step
                     \/ (queue[i].step = queue[j].step /\ queue[i].k < queue[j].k))
    /\ running # NoDispatch =>
          \A i \in DOMAIN queue :
              queue[i].op = "dispatch" =>
                  (running.step < queue[i].step
                   \/ (running.step = queue[i].step /\ running.k < queue[i].k))

\* one detect worker of a two-body step has run, the other has not, and no
\* apply worker has
C12_Witness ==
    /\ running # NoDispatch
    /\ running.name = "collision_detect"
    /\ running.count = 2
    /\ done = {1}
    /\ \E e \in executed : e.name = "aggregate" /\ e.step = running.step /\ e.w = 1
    /\ ~ \E e \in executed : e.name = "collision_apply" /\ e.step = running.step

----------------------------------------------------------------------------
\* the sorted positions below node x of the built topology, followed for at
\* most fuel levels; -1 marks a child link that leads nowhere
RECURSIVE BuiltLeaves(_, _)
BuiltLeaves(x, fuel) ==
    IF x >= leaf_count - 1 THEN {x - (leaf_count - 1)}
    ELSE IF fuel = 0 \/ x \notin DOMAIN topology THEN {-1}
    ELSE BuiltLeaves(topology[x].left_child, fuel - 1)
         \cup BuiltLeaves(topology[x].right_child, fuel - 1)

SetMin(S) == CHOOSE a \in S : \A b \in S : a <= b
SetMax(S) == CHOOSE a \in S : \A b \in S : a >= b
IsRange(S) == S # {} /\ S = SetMin(S) .. SetMax(S)

BuildComplete == morton_codes # <<>> /\ DOMAIN topology = 0 .. leaf_count - 2

\* C14: after the build over n >= 2 ascending codes, the leaf sets of the two
\* children of every internal node are ranges of sorted positions, the right
\* one starting right after the left one ends, together the node's own range;
\* node 0 covers 0 .. n - 1; the nodes 0 .. n - 2 are the internal nodes and
\* node n - 1 + p is the leaf of sorted position p, each node but the root the
\* child of exactly one node.
C14_ChildrenPartitionRange ==
    BuildComplete =>
        LET n == leaf_count
            Below(x) == BuiltLeaves(x, n)
        IN  /\ Below(0) = 0 .. n - 1
            /\ \A i \in 0 .. n - 2 :
                  LET l == Below(topology[i].left_child)
                      r == Below(topology[i].right_child)
                  IN  /\ IsRange(l) /\ IsRange(r)
                      /\ SetMin(l) >= 0
                      /\ SetMax(l) + 1 = SetMin(r)
                      /\ Below(i) = SetMin(l) .. SetMax(r)
                      /\ topology[i].left_child \in 1 .. 2 * n - 2
                      /\ topology[i].right_child \in 1 .. 2 * n - 2
            /\ \A x \in 1 .. 2 * n - 2 :
                  Cardinality({ i \in 0 .. n - 2 :
                      topology[i].left_child = x \/ topology[i].right_child = x }) = 1
            /\ \A p \in 0 .. n - 1 : Below(n - 1 + p) = {p}

\* a tree built over four codes of which three are equal
C14_Witness ==
    /\ BuildComplete
    /\ leaf_count = 4
    /\ morton_codes = (0 :> 2 @@ 1 :> 5 @@ 2 :> 5 @@ 3 :> 5)
    /\ BuiltLeaves(0, 4) = 0 .. 3
    /\ topology[0].left_child = 3

----------------------------------------------------------------------------
\* the aggregate of the subtree of node x
RECURSIVE SubtreeAggregate(_)
SubtreeAggregate(x) ==
    IF x >= leaf_count - 1 THEN LeafAggregate(x - (leaf_count - 1))
    ELSE Merge(SubtreeAggregate(topology[x].left_child),
               SubtreeAggregate(topology[x].right_child))

InternalNodes == 0 .. leaf_count - 2

\* what holds of the aggregation at every moment
AggregatedOnce ==
    /\ \A x \in DOMAIN aggregate : aggregate[x].set => aggregate[x] = SubtreeAggregate(x)
    /\ \A x \in InternalNodes :
          /\ Len(writers[x]) <= 1
          /\ Len(arrivals[x]) <= 2
          /\ Len(writers[x]) = 1 =>
                /\ Len(arrivals[x]) = 2
                /\ writers[x][1] = arrivals[x][2]
                /\ aggregate[topology[x].left_child].set
                /\ aggregate[topology[x].right_child].set
          /\ Len(arrivals[x]) >= 1 =>
                LET first == arrivals[x][1]
                IN  /\ worker[first].pc = "done"
                    /\ parent[worker[first].at] = x
                    /\ \A y \in InternalNodes :
                          (y = x \/ BuiltLeaves(x, leaf_count) \subseteq BuiltLeaves(y, leaf_count))
                              => \A i \in DOMAIN writers[y] : writers[y][i] # first
    /\ (\A w \in DOMAIN worker : worker[w].pc = "done") =>
          \A x \in InternalNodes : Len(writers[x]) = 1

\* C13: under every interleaving of the leaf workers each internal node's
\* aggregate is written at most once, by the worker that arrived second, after
\* both children's aggregates were written with their final values; the worker
\* that arrived first has stopped and writes neither the parent nor any node
\* above it; and the root is eventually aggregated, every internal node having
\* been written exactly once.
C13_AggregatedOnceBySecond ==
    /\ []AggregatedOnce
    /\ <>[](/\ aggregate[0].set
            /\ \A x \in InternalNodes : Len(writers[x]) = 1)

\* the root of a four-leaf tree written by the worker that arrived second,
\* while the one that arrived first sits done below it
C13_Witness ==
    /\ leaf_count = 4
    /\ aggregate[0] = [set |-> TRUE, leaves |-> 0 .. 3, mass |-> 10]
    /\ Len(arrivals[0]) = 2
    /\ writers[0] = <<arrivals[0][2]>>
    /\ worker[arrivals[0][1]].pc = "done"
    /\ worker[arrivals[0][1]].at # 0
    /\ arrivals[0][1] # arrivals[0][2]

----------------------------------------------------------------------------
\* the length of the buffer a sampler reads, and of a row of it
ReadBuffer(fn) ==
    IF fn = "sample_u" THEN uBuffer ELSE IF fn = "sample_v" THEN vBuffer ELSE dyeBuffer
RowLength(fn) ==
    IF fn = "sample_u" THEN uint_metadata.width + 1 ELSE uint_metadata.width

\* the elements of sampler call r lie in the buffer, each pair in one row
ReadsInGrid(r) ==
    /\ \A k \in 1 .. 4 : r.idx[k] \in DOMAIN ReadBuffer(r.fn)
    /\ r.idx[1] \div RowLength(r.fn) = r.idx[2] \div RowLength(r.fn)
    /\ r.idx[3] \div RowLength(r.fn) = r.idx[4] \div RowLength(r.fn)

\* C21: for every sample position each of the four indices sample_u reads is
\* below (width + 1) * height, sample_v below width * (height + 1) and
\* sample_dye below width * height, and the two indices of a row pair lie in
\* the same grid row.
C21_Claimed == \A k \in DOMAIN taps : ReadsInGrid(taps[k])

====
